---------------------------- MODULE Spec2Model ----------------------------
(***************************************************************************)
(* A model of aerleon's policy front end (src/aerleon/lib/policy.py):      *)
(* the Policy/Term objects, port and address normalization, SanityCheck,   *)
(* term containment and the shading pass.                                  *)
(*                                                                         *)
(* Several specifications share the variables below.                       *)
(*   SpecPorts   Term.CollapsePortList applied to bounded port lists       *)
(*   SpecAddr    Term.CheckAddressIsContained on bounded address lists     *)
(*   SpecSanity  Term.SanityCheck on bounded terms                         *)
(*   SpecShade   Policy._DetectShading over an ordered term list           *)
(*   Spec        Policy.AddFilter, stepped through _TranslateTerms and     *)
(*               _DetectShading                                            *)
(* A specification leaves the variables it does not use at their idle      *)
(* values.                                                                 *)
(***************************************************************************)
EXTENDS Integers, Sequences, FiniteSets, TLC

VARIABLES
    terms,        \* the Term objects, by identity: term id -> Term fields
    filters,      \* Policy.filters: sequence of [header, terms (ids)]
    pc,           \* position inside Policy.AddFilter
    raised,       \* the exception the last operation raised, or "none"
    warnings,     \* pairs <<index, prior_index>> logged by the latest _DetectShading
    calls,        \* per Term object: how often each method has run on it
                  \* (in SpecInclude: the #include lines handled so far)
    policy,       \* "absent", "constructing" (inside Policy.__init__) or "built"
    before,       \* the Term objects as they were when _DetectShading (in
                  \* SpecBuild: the latest AddObject) began
    OPTIMIZE,     \* policy._OPTIMIZE
    SHADE_CHECK,  \* policy._SHADE_CHECK
    arg,          \* input of the function under analysis (pure-function specs)
    ret           \* outputs of the function under analysis, in call order

vars == <<terms, filters, pc, raised, warnings, calls, policy, before,
          OPTIMIZE, SHADE_CHECK, arg, ret>>

policyVars == <<terms, filters, pc, raised, warnings, calls, policy, before,
                OPTIMIZE, SHADE_CHECK>>

fnVars == <<arg, ret>>

(***************************************************************************)
(* Bounds of the model.                                                    *)
(***************************************************************************)
\* ports are drawn from 0..MaxPort
MaxPort == 3

\* longest port list handed to CollapsePortList
MaxPortListLen == 3

\* the address space of one IP version has 2^AddrBits hosts
AddrBits == 2

\* longest address list handed to CheckAddressIsContained
MaxAddrListLen == 2

\* longest term list handed to _DetectShading in SpecShade
MaxShadeTerms == 3

\* Term objects that exist in Spec
NumTerms == 2

\* longest Policy.filters in Spec
MaxFilters == 2

\* how often _TranslateTerms may start on one Term object in Spec
MaxCalls == 2

\* AddObject calls on the term of SpecBuild
MaxLines == 3

\* most top-level keys of a YAML mapping
MaxKeys == 3

\* method calls on the term of SpecFlatten
MaxOps == 4

\* largest INTEGER token of SpecRange
MaxInteger == 4

(***************************************************************************)
(* Generic helpers.                                                        *)
(***************************************************************************)
Range(s) == {s[i] : i \in 1..Len(s)}

Last(s) == s[Len(s)]

\* Python: sorted(seq) with a strict order Less; stable.
Sorted(s, Less(_, _)) == SortSeq(s, Less)

\* all sequences over S of length 0..n
SeqsUpTo(S, n) == UNION {[1..k -> S] : k \in 0..n}

(***************************************************************************)
(* Ports.  A resolved port entry is a closed range <<low, high>>.          *)
(***************************************************************************)
PortRanges == {<<lo, hi>> : lo \in 0..MaxPort, hi \in 0..MaxPort} \ {<<lo, hi>> \in (0..MaxPort) \X (0..MaxPort) : lo > hi}

\* Python tuple order on (low, high)
PortLess(p, q) == p[1] < q[1] \/ (p[1] = q[1] /\ p[2] < q[2])

\* the set of port numbers a list of ranges covers
Covered(ports) == UNION {p[1]..p[2] : p \in Range(ports)}

\* a plausible slip: the contiguous candidate is merged and then also kept
CollapseStepKeepCandidate(ret_ports, port) ==
    IF ret_ports = <<>> THEN Append(ret_ports, port)
    ELSE IF Last(ret_ports)[2] >= port[2] THEN ret_ports
    ELSE IF port[1] < Last(ret_ports)[2] /\ Last(ret_ports)[2] < port[2]
         THEN [ret_ports EXCEPT ![Len(ret_ports)] = <<Last(ret_ports)[1], port[2]>>]
    ELSE IF Last(ret_ports)[2] + 1 = port[1]
         THEN Append([ret_ports EXCEPT ![Len(ret_ports)] = <<Last(ret_ports)[1], port[2]>>], port)
    ELSE Append(ret_ports, port)

\* a plausible slip: the overlapping candidate replaces the accepted range
CollapseStepReplace(ret_ports, port) ==
    IF ret_ports = <<>> THEN Append(ret_ports, port)
    ELSE IF Last(ret_ports)[2] >= port[2] THEN ret_ports
    ELSE IF port[1] < Last(ret_ports)[2] /\ Last(ret_ports)[2] < port[2]
         THEN [ret_ports EXCEPT ![Len(ret_ports)] = port]
    ELSE IF Last(ret_ports)[2] + 1 = port[1]
         THEN [ret_ports EXCEPT ![Len(ret_ports)] = <<Last(ret_ports)[1], port[2]>>]
    ELSE Append(ret_ports, port)

\* one iteration of the loop of Term.CollapsePortList
CollapseStep(ret_ports, port) ==
    IF ret_ports = <<>> THEN Append(ret_ports, port)
    ELSE IF Last(ret_ports)[2] >= port[2] THEN ret_ports
    ELSE IF port[1] < Last(ret_ports)[2] /\ Last(ret_ports)[2] < port[2]
         THEN [ret_ports EXCEPT ![Len(ret_ports)] = <<Last(ret_ports)[1], port[2]>>]
    ELSE IF Last(ret_ports)[2] + 1 = port[1]
         THEN [ret_ports EXCEPT ![Len(ret_ports)] = <<Last(ret_ports)[1], port[2]>>]
    ELSE Append(ret_ports, port)

RECURSIVE CollapseLoop(_, _)
CollapseLoop(ret_ports, rest) ==
    IF rest = <<>> THEN ret_ports
    ELSE CollapseLoop(CollapseStep(ret_ports, Head(rest)), Tail(rest))

\* Term.CollapsePortList
CollapsePortList(ports) == CollapseLoop(<<>>, Sorted(ports, PortLess))

(***************************************************************************)
(* Addresses.  A network object is <<version, first, last, token>>: an     *)
(* aligned block first..last of a (2^AddrBits)-host address space of IP    *)
(* version 4 or 6, carrying the name (token) of the naming group it came   *)
(* from.  The address library (aerleon.lib.nacaddr) is a collaborator: its *)
(* operations are modelled by what the specification says they return.     *)
(***************************************************************************)
RECURSIVE Pow2(_)
Pow2(n) == IF n = 0 THEN 1 ELSE 2 * Pow2(n - 1)

MaxHost == Pow2(AddrBits) - 1

Net(v, lo, hi, tok) == <<v, lo, hi, tok>>

\* the aligned blocks <<first, last>> of the address space
Blocks ==
    {<<lo, lo + Pow2(k) - 1>> : <<lo, k>> \in
        {<<l, j>> \in (0..MaxHost) \X (0..AddrBits) : l % Pow2(j) = 0}}

\* the naming groups of the model, in a fixed order
TokenNames == <<"ANY", "LOW", "HIGH", "H0", "H1", "H2", "H3">>

TokIdx(tok) == CHOOSE i \in 1..Len(TokenNames) : TokenNames[i] = tok

\* order of network objects: version, network address, then netmask
NetLess(a, b) ==
    \/ a[1] < b[1]
    \/ a[1] = b[1] /\ a[2] < b[2]
    \/ a[1] = b[1] /\ a[2] = b[2] /\ a[3] > b[3]

\* a total order that also separates equal networks of different tokens
NetTokLess(a, b) ==
    \/ NetLess(a, b)
    \/ a[1] = b[1] /\ a[2] = b[2] /\ a[3] = b[3] /\ TokIdx(a[4]) < TokIdx(b[4])

\* nacaddr.IPv4/IPv6.subnet_of: version-aware sub-network test
subnet_of(a, b) == a[1] = b[1] /\ b[2] <= a[2] /\ a[3] <= b[3]

\* the <<version, host>> pairs a list of networks covers
HostsOf(addrs) == {<<n[1], h>> : <<n, h>> \in
    {<<m, g>> \in Range(addrs) \X (0..MaxHost) : m[2] <= g /\ g <= m[3]}}

BlockIn(v, b, H) == \A h \in b[1]..b[2] : <<v, h>> \in H

\* the maximal aligned blocks <<version, first, last>> inside host set H
MaximalBlocks(H) ==
    {<<v, b[1], b[2]>> : <<v, b>> \in
        {<<w, c>> \in {4, 6} \X Blocks :
            /\ BlockIn(w, c, H)
            /\ \A d \in Blocks :
                  (d[1] <= c[1] /\ c[2] <= d[2] /\ d # c) => ~BlockIn(w, d, H)}}

\* the elements of a finite set of networks as a sequence sorted by NetTokLess
RECURSIVE SortedSeqOf(_)
SortedSeqOf(S) ==
    IF S = {} THEN <<>>
    ELSE LET m == CHOOSE x \in S : \A y \in S \ {x} : NetTokLess(x, y)
         IN <<m>> \o SortedSeqOf(S \ {m})

\* the token given to a block computed from addrs: that of the first network
\* of addrs (in sorted order) that the block lies in or that lies in the block
TokenOf(blk, addrs) ==
    LET s == SortSeq(addrs, NetLess)
        hit == {i \in 1..Len(s) :
                   s[i][1] = blk[1] /\
                   ((s[i][2] <= blk[2] /\ blk[3] <= s[i][3]) \/
                    (blk[2] <= s[i][2] /\ s[i][3] <= blk[3]))}
    IN s[CHOOSE i \in hit : \A j \in hit : i <= j][4]

WithTokens(blks, addrs) == {Net(b[1], b[2], b[3], TokenOf(b, addrs)) : b \in blks}

\* nacaddr.SortAddrList: sorted, nothing merged
SortAddrList(addresses) == SortSeq(addresses, NetLess)

\* nacaddr.CollapseAddrList: the minimal covering list of networks
CollapseAddrList(addresses) ==
    SortedSeqOf(WithTokens(MaximalBlocks(HostsOf(addresses)), addresses))

\* nacaddr.CollapseAddrListPreserveTokens: networks are merged only with
\* networks of the same token
CollapseAddrListPreserveTokens(addresses) ==
    SortedSeqOf(UNION {
        LET same == SelectSeq(addresses, LAMBDA n : n[4] = tok)
        IN {Net(b[1], b[2], b[3], tok) : b \in MaximalBlocks(HostsOf(same))}
        : tok \in {n[4] : n \in Range(addresses)}})

\* nacaddr.AddressListExclude(superset, excludes, collapse_addrs=False):
\* every network of superset cut down to the blocks left once the excluded
\* networks are taken out; sorted, without duplicates
AddressListExclude(superset, excludes) ==
    LET pieces == UNION {
            MaximalBlocks(HostsOf(<<n>>) \ HostsOf(excludes)) : n \in Range(superset)}
    IN SortedSeqOf(WithTokens(pieces, superset))

\* Python None and a list, as the values of an attribute that may be either
None == [some |-> FALSE, v |-> <<>>]

Some(list) == [some |-> TRUE, v |-> list]

\* Python truthiness of None or a list: "not x"
Not(x) == ~x.some \/ x.v = <<>>

\* the two early returns taken in the other order
CheckAddressIsContainedSubsetFirst(superset, subset) ==
    IF Not(subset) THEN TRUE
    ELSE IF Not(superset) THEN FALSE
    ELSE \A i \in 1..Len(subset.v) :
            \E j \in 1..Len(superset.v) : subnet_of(subset.v[i], superset.v[j])

\* Term.CheckAddressIsContained
CheckAddressIsContained(superset, subset) ==
    IF Not(superset) THEN TRUE
    ELSE IF Not(subset) THEN FALSE
    ELSE \A i \in 1..Len(subset.v) :
            \E j \in 1..Len(superset.v) : subnet_of(subset.v[i], superset.v[j])

\* the networks the naming collaborator can resolve in this model
ANY4 == Net(4, 0, MaxHost, "ANY")

LOW4 == Net(4, 0, 1, "LOW")

HIGH4 == Net(4, 2, 3, "HIGH")

HOST0 == Net(4, 0, 0, "H0")

HOST1 == Net(4, 1, 1, "H1")

HOST2 == Net(4, 2, 2, "H2")

ANY6 == Net(6, 0, MaxHost, "ANY")

(***************************************************************************)
(* Terms.  List attributes are sequences.  A scalar string attribute holds *)
(* PyNone while unset.  ttl is <<>> while unset and <<n>> once set.  The   *)
(* strings 'N' and 'N-M' of fragment_offset, hop_limit and packet_length   *)
(* are held as the integers they split into, <<N>> or <<N, M>>, and <<>>   *)
(* while unset.  A symbolic port (a service name) is <<name>>; a resolved  *)
(* port is <<low, high>>.                                                  *)
(***************************************************************************)
PyNone == "None"

\* Python truthiness of a scalar string attribute
IsSet(x) == x # PyNone

\* policy.ACTIONS (ACTIONS is a reserved word of TLA+)
TERM_ACTIONS == {"accept", "count", "deny", "reject", "next", "reject-with-tcp-rst"}

PROTOS_WITH_PORTS == {"tcp", "udp", "udplite", "sctp"}

MAX_TTL == 255

MIN_TTL == 0

ICMP_TYPE4 ==
    {"echo-reply", "unreachable", "source-quench", "redirect", "alternate-address",
     "echo-request", "router-advertisement", "router-solicitation", "time-exceeded",
     "parameter-problem", "timestamp-request", "timestamp-reply",
     "information-request", "information-reply", "mask-request", "mask-reply",
     "conversion-error", "mobile-redirect"}

ICMP_TYPE6 ==
    {"destination-unreachable", "packet-too-big", "time-exceeded", "parameter-problem",
     "echo-request", "echo-reply", "multicast-listener-query",
     "multicast-listener-report", "multicast-listener-done", "router-solicit",
     "router-advertisement", "neighbor-solicit", "neighbor-advertisement",
     "redirect-message", "router-renumbering", "icmp-node-information-query",
     "icmp-node-information-response", "inverse-neighbor-discovery-solicitation",
     "inverse-neighbor-discovery-advertisement",
     "version-2-multicast-listener-report", "home-agent-address-discovery-request",
     "home-agent-address-discovery-reply", "mobile-prefix-solicitation",
     "mobile-prefix-advertisement", "certification-path-solicitation",
     "certification-path-advertisement", "multicast-router-advertisement",
     "multicast-router-solicitation", "multicast-router-termination"}

\* Term.ICMP_CODE: the types that have codes, each with its valid codes
ICMP_CODE ==
    [ty \in {"unreachable", "redirect", "router-advertisement", "time-exceeded",
             "destination-unreachable", "parameter-problem", "router-renumbering",
             "icmp-node-information-query", "icmp-node-information-response"} |->
        CASE ty = "unreachable" -> 0..15
          [] ty = "redirect" -> 0..3
          [] ty = "router-advertisement" -> {0, 16}
          [] ty = "time-exceeded" -> {0, 1}
          [] ty = "destination-unreachable" -> 0..7
          [] ty = "parameter-problem" -> 0..3
          [] ty = "router-renumbering" -> {0, 1, 255}
          [] ty = "icmp-node-information-query" -> {0, 1, 2}
          [] ty = "icmp-node-information-response" -> {0, 1, 2}]

\* str.isnumeric() and int() on the protocol strings of the model
ProtoInt == [p \in {"6", "300"} |-> IF p = "6" THEN 6 ELSE 300]

isnumeric(proto) == proto \in DOMAIN ProtoInt

\* Term.__init__: a term with nothing set
NewTerm ==
    [action |-> <<>>,
     address |-> <<>>, address_exclude |-> <<>>,
     source_address |-> <<>>, source_address_exclude |-> <<>>,
     destination_address |-> <<>>, destination_address_exclude |-> <<>>,
     port |-> <<>>, source_port |-> <<>>, destination_port |-> <<>>,
     protocol |-> <<>>, protocol_except |-> <<>>,
     verbatim |-> <<>>, option |-> <<>>,
     routing_instance |-> PyNone, next_ip |-> <<>>, encapsulate |-> PyNone,
     filter_term |-> PyNone, port_mirror |-> PyNone, policer |-> PyNone,
     ether_type |-> <<>>, icmp_type |-> <<>>, icmp_code |-> <<>>, ttl |-> <<>>,
     source_prefix |-> <<>>, source_prefix_except |-> <<>>,
     destination_prefix |-> <<>>, destination_prefix_except |-> <<>>,
     source_tag |-> <<>>, destination_tag |-> <<>>,
     precedence |-> <<>>, forwarding_class |-> <<>>, forwarding_class_except |-> <<>>,
     fragment_offset |-> <<>>, hop_limit |-> <<>>, packet_length |-> <<>>,
     platform |-> <<>>, platform_exclude |-> <<>>,
     source_zone |-> <<>>, destination_zone |-> <<>>,
     translated |-> FALSE,
     flattened |-> FALSE,
     flattened_addr |-> None, flattened_saddr |-> None, flattened_daddr |-> None]

\* a plausible slip: port_mirror left out of the list of action-like attributes
NoActionSpecifiedWithoutPortMirror(t) ==
    /\ t.action = <<>>
    /\ ~IsSet(t.routing_instance)
    /\ t.next_ip = <<>>
    /\ ~IsSet(t.encapsulate)
    /\ ~IsSet(t.filter_term)

\* Term.SanityCheck: the test that raises TermNoActionError
NoActionSpecified(t) ==
    /\ t.action = <<>>
    /\ ~IsSet(t.routing_instance)
    /\ t.next_ip = <<>>
    /\ ~IsSet(t.encapsulate)
    /\ ~IsSet(t.filter_term)
    /\ ~IsSet(t.port_mirror)

\* a plausible slip: only the generic port list is looked at
PortProtocolCheckPortOnly(t) ==
    LET protos_no_ports == {p \in Range(t.protocol) : p \notin PROTOS_WITH_PORTS}
    IN IF protos_no_ports # {} /\ t.port # <<>>
       THEN IF Range(t.protocol) \ protos_no_ports # {}
            THEN "MixedPortandNonPortProtos"
            ELSE "TermPortProtocolError"
       ELSE "none"

\* Term.SanityCheck: ports with a protocol that has no ports
PortProtocolCheck(t) ==
    LET protos_no_ports == {p \in Range(t.protocol) : p \notin PROTOS_WITH_PORTS}
    IN IF protos_no_ports # {} /\
          (t.source_port # <<>> \/ t.destination_port # <<>> \/ t.port # <<>>)
       THEN IF Range(t.protocol) \ protos_no_ports # {}
            THEN "MixedPortandNonPortProtos"
            ELSE "TermPortProtocolError"
       ELSE "none"

\* Term.SanityCheck: icmp-code validation.  ICMP_CODE[type_name] is a dict
\* lookup, so a type without an entry raises KeyError.
IcmpCodeCheck(t) ==
    IF t.icmp_code = <<>> THEN "none"
    ELSE IF Len(t.icmp_type) # 1 THEN "ICMPCodeError"
    ELSE IF t.icmp_type[1] \notin DOMAIN ICMP_CODE THEN "KeyError"
    ELSE IF \E i \in 1..Len(t.icmp_code) : t.icmp_code[i] \notin ICMP_CODE[t.icmp_type[1]]
         THEN "ICMPCodeError"
    ELSE "none"

\* Term.SanityCheck from the ether-type check on
SanityCheckTail(t) ==
    IF /\ t.ether_type # <<>>
       /\ \/ t.protocol # <<>>
          \/ t.address # <<>>
          \/ t.destination_address # <<>>
          \/ t.destination_address_exclude # <<>>
          \/ t.destination_port # <<>>
          \/ t.destination_prefix # <<>>
          \/ t.destination_prefix_except # <<>>
          \/ t.source_address # <<>>
          \/ t.source_address_exclude # <<>>
          \/ t.source_port # <<>>
          \/ t.source_prefix # <<>>
          \/ t.source_prefix_except # <<>>
    THEN "TermProtocolEtherTypeError"
    ELSE IF IcmpCodeCheck(t) # "none" THEN IcmpCodeCheck(t)
    ELSE IF \E i \in 1..Len(t.icmp_type) :
                t.icmp_type[i] \notin ICMP_TYPE4 /\ t.icmp_type[i] \notin ICMP_TYPE6
         THEN "TermInvalidIcmpType"
    ELSE IF /\ t.ttl # <<>>
            /\ t.ttl[1] # 0
            /\ ~(MIN_TTL <= t.ttl[1] /\ t.ttl[1] <= MAX_TTL)
         THEN "InvalidTermTTLValue"
    ELSE IF \E i \in 1..Len(t.protocol) :
                /\ isnumeric(t.protocol[i])
                /\ (ProtoInt[t.protocol[i]] < 0 \/ 255 < ProtoInt[t.protocol[i]])
         THEN "InvalidNumericProtoValue"
    ELSE "none"

\* Term.SanityCheck: the exception it raises, or "none" when it returns
SanityCheck(t) ==
    IF t.verbatim # <<>>
    THEN IF \/ t.action # <<>>
            \/ t.source_port # <<>>
            \/ t.destination_port # <<>>
            \/ t.port # <<>>
            \/ t.protocol # <<>>
            \/ t.option # <<>>
         THEN "ParseError"
         ELSE SanityCheckTail(t)
    ELSE IF NoActionSpecified(t) THEN "TermNoActionError"
    ELSE IF IsSet(t.filter_term) /\ t.action # <<>> THEN "InvalidTermActionError"
    ELSE IF PortProtocolCheck(t) # "none" THEN PortProtocolCheck(t)
    ELSE SanityCheckTail(t)

(***************************************************************************)
(* Containment: Term.__contains__ and the checks it uses.                  *)
(***************************************************************************)
Count(x, s) == Cardinality({i \in 1..Len(s) : s[i] = x})

\* Python: sorted(a) == sorted(b), equality of two lists up to order
SortedEqual(a, b) == \A x \in Range(a) \cup Range(b) : Count(x, a) = Count(x, b)

\* Python: a < b on lists of integers
RECURSIVE ListLess(_, _)
ListLess(a, b) ==
    IF b = <<>> THEN FALSE
    ELSE IF a = <<>> THEN TRUE
    ELSE IF Head(a) # Head(b) THEN Head(a) < Head(b)
    ELSE ListLess(Tail(a), Tail(b))

IntLess(a, b) == a < b

\* Python: sorted(list of integers)
SortedInts(s) == SortSeq(s, IntLess)

\* Term.CheckProtocolIsContained
CheckProtocolIsContained(superset, subset) ==
    IF superset = <<>> THEN TRUE
    ELSE IF subset = <<>> THEN FALSE
    ELSE Range(subset) \subseteq Range(superset)

\* Term.CheckPortIsContained
CheckPortIsContained(superset, subset) ==
    IF superset = <<>> THEN TRUE
    ELSE IF subset = <<>> THEN FALSE
    ELSE \A i \in 1..Len(subset) :
            \E j \in 1..Len(superset) :
                subset[i][1] >= superset[j][1] /\ subset[i][2] <= superset[j][2]

\* Term.FlattenAll(mutate=True)
FlattenAll(t) ==
    IF t.source_address_exclude = <<>> /\ t.destination_address_exclude = <<>>
       /\ t.address_exclude = <<>>
    THEN [t EXCEPT !.flattened = TRUE,
                   !.flattened_saddr = Some(t.source_address),
                   !.flattened_daddr = Some(t.destination_address),
                   !.flattened_addr = Some(t.address)]
    ELSE LET s == AddressListExclude(t.source_address, t.source_address_exclude)
             d == AddressListExclude(t.destination_address, t.destination_address_exclude)
             a == AddressListExclude(t.address, t.address_exclude)
         IN [t EXCEPT
              !.flattened = TRUE,
              !.flattened_saddr = IF t.source_address_exclude # <<>> THEN Some(s) ELSE @,
              !.source_address = IF t.source_address_exclude # <<>> THEN s ELSE @,
              !.flattened_daddr = IF t.destination_address_exclude # <<>> THEN Some(d) ELSE @,
              !.destination_address = IF t.destination_address_exclude # <<>> THEN d ELSE @,
              !.flattened_addr = IF t.address_exclude # <<>> THEN Some(a) ELSE @,
              !.address = IF t.address_exclude # <<>> THEN a ELSE @]

\* Term.__contains__, lines 538-541: "if not x.flattened: x.FlattenAll()"
Flattened(t) == IF t.flattened THEN t ELSE FlattenAll(t)

\* Term.__contains__ up to the flattening: verbatim and protocol checks.
\* FALSE when one of them returns False.
ContainsProtocols(self, other) ==
    /\ (self.verbatim # <<>> \/ other.verbatim # <<>>) =>
            SortedEqual(self.verbatim, other.verbatim)
    /\ IF self.protocol # <<>>
       THEN /\ other.protocol # <<>>
            /\ CheckProtocolIsContained(other.protocol, self.protocol)
       ELSE IF self.protocol_except # <<>>
       THEN IF other.protocol_except # <<>>
            THEN CheckProtocolIsContained(self.protocol_except, other.protocol_except)
            ELSE IF other.protocol # <<>>
            THEN \A i \in 1..Len(other.protocol) :
                    other.protocol[i] \notin Range(self.protocol_except)
            ELSE FALSE
       ELSE TRUE

\* Term.__contains__: the address checks on flattened terms
ContainsAddresses(self, other) ==
    /\ \/ CheckAddressIsContained(self.flattened_addr, other.flattened_addr)
       \/ CheckAddressIsContained(self.flattened_addr, other.flattened_saddr)
       \/ CheckAddressIsContained(self.flattened_addr, other.flattened_daddr)
    /\ CheckAddressIsContained(other.flattened_addr, self.flattened_saddr)
    /\ CheckAddressIsContained(other.flattened_addr, self.flattened_daddr)
    /\ CheckAddressIsContained(self.flattened_saddr, other.flattened_saddr)
    /\ CheckAddressIsContained(self.flattened_daddr, other.flattened_daddr)

\* Term.__contains__: the port checks
ContainsPorts(self, other) ==
    /\ self.port # <<>> =>
         \/ CheckPortIsContained(self.port, other.port)
         \/ CheckPortIsContained(self.port, other.source_port)
         \/ CheckPortIsContained(self.port, other.destination_port)
    /\ CheckPortIsContained(self.source_port, other.source_port)
    /\ CheckPortIsContained(self.destination_port, other.destination_port)

\* Term.__contains__: prefix lists and tags
ContainsPrefixesAndTags(self, other) ==
    /\ self.source_prefix # <<>> => SortedEqual(self.source_prefix, other.source_prefix)
    /\ self.source_prefix_except # <<>> =>
         SortedEqual(self.source_prefix_except, other.source_prefix_except)
    /\ self.destination_prefix # <<>> =>
         SortedEqual(self.destination_prefix, other.destination_prefix)
    /\ self.destination_prefix_except # <<>> =>
         SortedEqual(self.destination_prefix_except, other.destination_prefix_except)
    /\ self.source_tag # <<>> =>
         /\ SortedEqual(self.source_tag, other.source_tag)
         /\ SortedEqual(self.destination_tag, other.destination_tag)

\* Term.__contains__: precedence, option, forwarding-class(-except)
ContainsOptions(self, other) ==
    /\ IF self.precedence # <<>>
       THEN other.precedence # <<>> /\ Range(other.precedence) \subseteq Range(self.precedence)
       ELSE other.precedence = <<>>
    /\ IF self.option # <<>>
       THEN other.option # <<>> /\ Range(other.option) \subseteq Range(self.option)
       ELSE other.option = <<>>
    /\ self.forwarding_class # <<>> =>
         /\ other.forwarding_class # <<>>
         /\ Range(other.forwarding_class) \subseteq Range(self.forwarding_class)
    /\ self.forwarding_class_except # <<>> =>
         /\ other.forwarding_class_except # <<>>
         /\ Range(other.forwarding_class_except) \subseteq Range(self.forwarding_class_except)

\* Term.__contains__: next_ip, encapsulate, fragment_offset, hop_limit,
\* packet_length, port_mirror
ContainsRanges(self, other) ==
    /\ self.next_ip # <<>> => other.next_ip # <<>>
    /\ IsSet(self.encapsulate) => IsSet(other.encapsulate)
    /\ self.fragment_offset # <<>> =>
         /\ other.fragment_offset # <<>>
         /\ LET sfo == SortedInts(self.fragment_offset)
                ofo == SortedInts(other.fragment_offset)
            IN ~(ofo[1] < sfo[1] \/ ListLess(Tail(sfo), Tail(ofo)))
    /\ self.hop_limit # <<>> =>
         /\ other.hop_limit # <<>>
         /\ ~(self.hop_limit[1] < other.hop_limit[1])
         /\ (Len(self.hop_limit) > 1 /\ Len(other.hop_limit) > 1) =>
                ~(self.hop_limit[1] > other.hop_limit[1])
    /\ self.packet_length # <<>> =>
         /\ other.packet_length # <<>>
         /\ ~(\/ self.packet_length[1] < other.packet_length[1]
              \/ ListLess(SortedInts(Tail(other.packet_length)),
                          SortedInts(Tail(self.packet_length))))
    /\ IsSet(self.port_mirror) => IsSet(other.port_mirror)

\* Python: "sorted(a) is not sorted(b)".  sorted() builds a new list on each
\* call, so the two operands are never the same object.
SortedIsNot(a, b) == TRUE

\* Term.__contains__: icmp_type, icmp_code, platform, platform_exclude and
\* the zones
ContainsIdentities(self, other) ==
    /\ self.icmp_type # <<>> => ~SortedIsNot(self.icmp_type, other.icmp_type)
    /\ self.icmp_code # <<>> => ~SortedIsNot(self.icmp_code, other.icmp_code)
    /\ self.platform # <<>> => ~SortedIsNot(self.platform, other.platform)
    /\ self.platform_exclude # <<>> =>
         ~SortedIsNot(self.platform_exclude, other.platform_exclude)
    /\ self.source_zone # <<>> => ~SortedIsNot(self.source_zone, other.source_zone)
    /\ self.destination_zone # <<>> =>
         ~SortedIsNot(self.destination_zone, other.destination_zone)

\* Term.__contains__ from the address checks on, on flattened terms
ContainsFlattened(self, other) ==
    /\ ContainsAddresses(self, other)
    /\ ContainsPorts(self, other)
    /\ ContainsPrefixesAndTags(self, other)
    /\ ContainsOptions(self, other)
    /\ ContainsRanges(self, other)
    /\ ContainsIdentities(self, other)

\* "other in self": the value Term.__contains__ returns
Contains(self, other) ==
    /\ ContainsProtocols(self, other)
    /\ ContainsFlattened(Flattened(self), Flattened(other))

(***************************************************************************)
(* Port translation and address cleanup, as Policy._TranslateTerms applies *)
(* them to one term.  An unresolved port is <<name>>, a resolved one is    *)
(* <<low, high>>.                                                          *)
(***************************************************************************)
\* the service definitions of the model: name -> protocol -> port strings,
\* each already split at '-'
SERVICES ==
    [HTTP |-> [tcp |-> <<<<1>>>>],
     DNS |-> [tcp |-> <<<<2>>>>, udp |-> <<<<2>>>>],
     HIGH_PORTS |-> [tcp |-> <<<<2, 3>>>>, udp |-> <<<<2, 3>>>>]]

\* service names that are numerals: such a name is its own definition under
\* every protocol
NUMERIC_SERVICES == [n \in {"3"} |-> 3]

\* naming.GetServiceByProto(port, proto) for a service name
GetServiceByProto(name, proto) ==
    IF name \in DOMAIN NUMERIC_SERVICES THEN <<<<NUMERIC_SERVICES[name]>>>>
    ELSE IF name \in DOMAIN SERVICES /\ proto \in DOMAIN SERVICES[name]
         THEN SERVICES[name][proto]
    ELSE <<>>

RECURSIVE Concat(_)
Concat(ss) == IF ss = <<>> THEN <<>> ELSE Head(ss) \o Concat(Tail(ss))

\* policy.TranslatePorts: the list it returns
TranslatePorts(ports, protocols) ==
    Concat([k \in 1..(Len(protocols) * Len(ports)) |->
        LET proto == protocols[((k - 1) \div Len(ports)) + 1]
            port == ports[((k - 1) % Len(ports)) + 1]
            service_by_proto == GetServiceByProto(port[1], proto)
        IN [i \in 1..Len(service_by_proto) |->
               LET p == service_by_proto[i]
               IN IF Len(p) = 1 THEN <<p[1], p[1]>> ELSE <<p[1], p[2]>>]])

\* TRUE when TranslatePorts hands the naming service something that is not
\* a service name: a port list that an earlier, failed pass already resolved
TranslatesResolvedPort(ports, protocols) ==
    protocols # <<>> /\ \E i \in 1..Len(ports) : Len(ports[i]) # 1

PORT_FIELDS == <<"port", "source_port", "destination_port">>

\* Policy._TranslateTerms, the three "if term.X: term.X = TranslatePorts(...)"
\* blocks from block k on: the term they leave and the exception they raise
RECURSIVE TranslateTermPorts(_, _)
TranslateTermPorts(t, k) ==
    IF k > Len(PORT_FIELDS) THEN [term |-> t, err |-> "none"]
    ELSE LET f == PORT_FIELDS[k]
         IN IF t[f] = <<>> THEN TranslateTermPorts(t, k + 1)
            ELSE IF TranslatesResolvedPort(t[f], t.protocol)
                 THEN [term |-> t, err |-> "AttributeError"]
            ELSE LET u == [t EXCEPT ![f] = TranslatePorts(t[f], t.protocol)]
                 IN IF u[f] = <<>>
                    THEN [term |-> u, err |-> "TermPortProtocolError"]
                    ELSE TranslateTermPorts(u, k + 1)

\* Term.AddressCleanup: the inner function cleanup.  The plain collapse is
\* handed the complement list, which keeps it from merging across an
\* excluded network; it takes nothing out of the list.
cleanup(addresses, complement_addresses, optimize, addressbook) ==
    IF ~optimize THEN SortAddrList(addresses)
    ELSE IF addressbook THEN CollapseAddrListPreserveTokens(addresses)
    ELSE CollapseAddrList(addresses)

\* Term.AddressCleanup
AddressCleanup(t, optimize, addressbook) ==
    LET c(a, x) == IF a = <<>> THEN a ELSE cleanup(a, x, optimize, addressbook)
        sa == c(t.source_address, t.source_address_exclude)
        da == c(t.destination_address, t.destination_address_exclude)
        p(l) == IF l = <<>> THEN l ELSE CollapsePortList(l)
    IN [t EXCEPT
          !.address = c(t.address, <<>>),
          !.source_address = sa,
          !.source_address_exclude = c(t.source_address_exclude, sa),
          !.destination_address = da,
          !.destination_address_exclude = c(t.destination_address_exclude, da),
          !.port = p(t.port),
          !.source_port = p(t.source_port),
          !.destination_port = p(t.destination_port)]

\* a Header is the list of its targets
Target(platform, options) == [platform |-> platform, options |-> options]

\* Header.FilterOptions
FilterOptions(header, platform) ==
    LET hit == {i \in 1..Len(header) : header[i].platform = platform}
    IN IF hit = {} THEN <<>>
       ELSE header[CHOOSE i \in hit : \A j \in hit : i <= j].options

\* Policy._NeedsAddressBook, over the headers of every filter of the policy
NeedsAddressBook(fs) ==
    \E i \in 1..Len(fs) :
        \E j \in 1..Len(fs[i].header) :
            \/ fs[i].header[j].platform = "srx"
            \/ "object-group" \in Range(FilterOptions(fs[i].header, fs[i].header[j].platform))

(***************************************************************************)
(* Term.AddObject and Term.__eq__.  The argument of AddObject is a typed   *)
(* value (VarType) or a list of typed values.  Attributes for which        *)
(* NewTerm has no field (comment, owner, logging, qos, ...) are left out.  *)
(***************************************************************************)
VarType(var_type, value) == [var_type |-> var_type, value |-> value]

\* AddObject(obj) with one VarType, and with a list of them
Single(x) == [list |-> FALSE, items |-> <<x>>]

ListOf(xs) == [list |-> TRUE, items |-> xs]

\* the network definitions of the model: token -> networks
NETWORKS ==
    [ANY |-> <<ANY4>>, LOW |-> <<LOW4>>, HIGH |-> <<HIGH4>>,
     HOSTS |-> <<HOST1, HOST0>>]

\* naming.GetNetAddr
GetNetAddr(token) == NETWORKS[token]

\* AddObject, list branch: var_type -> the list attribute it appends to
LIST_APPEND ==
    [PROTOCOL |-> "protocol", PROTOCOL_EXCEPT |-> "protocol_except",
     OPTION |-> "option", SPFX |-> "source_prefix", ESPFX |-> "source_prefix_except",
     DPFX |-> "destination_prefix", EDPFX |-> "destination_prefix_except",
     ETHER_TYPE |-> "ether_type", PRECEDENCE |-> "precedence",
     FORWARDING_CLASS |-> "forwarding_class",
     FORWARDING_CLASS_EXCEPT |-> "forwarding_class_except",
     PLATFORM |-> "platform", PLATFORMEXCLUDE |-> "platform_exclude",
     STAG |-> "source_tag", DTAG |-> "destination_tag",
     SZONE |-> "source_zone", DZONE |-> "destination_zone"]

\* AddObject, list branch: var_type -> the port attribute it appends to
LIST_PORT == [PORT |-> "port", SPORT |-> "source_port", DPORT |-> "destination_port"]

\* AddObject, list branch: var_type -> the address attribute it extends
LIST_ADDRESS ==
    [SADDRESS |-> "source_address", DADDRESS |-> "destination_address",
     ADDRESS |-> "address", SADDREXCLUDE |-> "source_address_exclude",
     DADDREXCLUDE |-> "destination_address_exclude",
     ADDREXCLUDE |-> "address_exclude"]

\* AddObject, single branch: var_type -> the attribute it assigns
SINGLE_ASSIGN ==
    [ROUTING_INSTANCE |-> "routing_instance", PRECEDENCE |-> "precedence",
     ENCAPSULATE |-> "encapsulate", PORT_MIRROR |-> "port_mirror",
     POLICER |-> "policer", PACKET_LEN |-> "packet_length",
     FRAGMENT_OFFSET |-> "fragment_offset", HOP_LIMIT |-> "hop_limit",
     FILTER_TERM |-> "filter_term"]

\* AddObject, single branch: var_type -> the list attribute it appends to
SINGLE_APPEND ==
    [FORWARDING_CLASS |-> "forwarding_class",
     FORWARDING_CLASS_EXCEPT |-> "forwarding_class_except",
     VERBATIM |-> "verbatim"]

\* AddObject, single branch: var_type -> the list attribute it extends
SINGLE_EXTEND == [ICMP_TYPE |-> "icmp_type", ICMP_CODE |-> "icmp_code"]

Ok(t) == [term |-> t, err |-> "none"]

\* one iteration of "for x in obj" of the list branch
AddListItem(t, x) ==
    LET vt == x.var_type
    IN IF vt \in DOMAIN LIST_ADDRESS
       THEN Ok([t EXCEPT ![LIST_ADDRESS[vt]] = @ \o GetNetAddr(x.value)])
       ELSE IF vt \in DOMAIN LIST_PORT
       THEN Ok([t EXCEPT ![LIST_PORT[vt]] = Append(@, <<x.value>>)])
       ELSE IF vt \in DOMAIN LIST_APPEND
       THEN Ok([t EXCEPT ![LIST_APPEND[vt]] = Append(@, x.value)])
       ELSE IF vt = "NEXT_IP"
       THEN Ok([t EXCEPT !.next_ip = GetNetAddr(x.value)])
       ELSE [term |-> t, err |-> "TermObjectTypeError"]

\* the list branch from item k on: items before a failing one stay applied
RECURSIVE AddListItems(_, _, _)
AddListItems(t, xs, k) ==
    IF k > Len(xs) THEN Ok(t)
    ELSE LET r == AddListItem(t, xs[k])
         IN IF r.err # "none" THEN r ELSE AddListItems(r.term, xs, k + 1)

\* a plausible slip: the action is stored before it is checked
AddActionUnchecked(t, x) ==
    IF x.value \notin TERM_ACTIONS
    THEN [term |-> [t EXCEPT !.action = Append(@, x.value)],
          err |-> "InvalidTermActionError"]
    ELSE Ok([t EXCEPT !.action = Append(@, x.value)])

\* a plausible slip: a further action line replaces the action
AddActionReplacing(t, x) ==
    IF x.value \notin TERM_ACTIONS
    THEN [term |-> t, err |-> "InvalidTermActionError"]
    ELSE Ok([t EXCEPT !.action = <<x.value>>])

\* AddObject, single branch, VarType.ACTION
AddAction(t, x) ==
    IF x.value \notin TERM_ACTIONS
    THEN [term |-> t, err |-> "InvalidTermActionError"]
    ELSE Ok([t EXCEPT !.action = Append(@, x.value)])

\* AddObject, single branch
AddSingle(t, x) ==
    LET vt == x.var_type
    IN IF vt \in DOMAIN SINGLE_ASSIGN
       THEN Ok([t EXCEPT ![SINGLE_ASSIGN[vt]] = x.value])
       ELSE IF vt \in DOMAIN SINGLE_APPEND
       THEN Ok([t EXCEPT ![SINGLE_APPEND[vt]] = Append(@, x.value)])
       ELSE IF vt \in DOMAIN SINGLE_EXTEND
       THEN Ok([t EXCEPT ![SINGLE_EXTEND[vt]] = @ \o x.value])
       ELSE IF vt = "NEXT_IP"
       THEN Ok([t EXCEPT !.next_ip = GetNetAddr(x.value)])
       ELSE IF vt = "ACTION" THEN AddAction(t, x)
       ELSE IF vt = "TTL" THEN Ok([t EXCEPT !.ttl = <<x.value>>])
       ELSE [term |-> t, err |-> "TermObjectTypeError"]

\* Term.AddObject: the term it leaves and the exception it raises
AddObject(t, obj) ==
    IF obj.list THEN AddListItems(t, obj.items, 1) ELSE AddSingle(t, obj.items[1])

\* Term.__eq__, over the attributes of NewTerm
TermEq(a, b) ==
    /\ \A f \in {"action", "address", "source_address", "source_address_exclude",
                 "destination_address", "destination_address_exclude",
                 "source_prefix", "source_prefix_except", "destination_prefix",
                 "destination_prefix_except", "port", "source_port",
                 "destination_port", "protocol", "protocol_except", "option",
                 "source_tag", "destination_tag", "icmp_type", "icmp_code",
                 "ether_type", "platform", "platform_exclude",
                 "forwarding_class", "forwarding_class_except",
                 "source_zone", "destination_zone"} : SortedEqual(a[f], b[f])
    /\ \A f \in {"verbatim", "policer", "ttl", "packet_length", "fragment_offset",
                 "hop_limit", "precedence", "filter_term", "next_ip",
                 "encapsulate", "port_mirror"} : a[f] = b[f]

(***************************************************************************)
(* _Preprocess: #include expansion.  A string is a sequence of pieces of   *)
(* text, a path a sequence of names, a name a string.  A line of policy    *)
(* text is an #include line or any other line.                             *)
(***************************************************************************)
\* the default of the parameter max_depth of _Preprocess
DEFAULT_MAX_DEPTH == 5

\* the names of the model
POL == <<"pol">>

POL2 == <<"pol", "2">>

ETC == <<"etc">>

DOTDOT == <<"..">>

IncName(n) == <<n, ".inc">>

\* an include file name as written: absolute or relative, names separated
RelPath(parts) == [abs |-> FALSE, parts |-> parts]

AbsPath(parts) == [abs |-> TRUE, parts |-> parts]

\* os.path.join(base_dir, include_file), base_dir being absolute
PathJoin(base_dir, include_file) ==
    IF include_file.abs THEN include_file.parts ELSE base_dir \o include_file.parts

\* pathlib.Path(p).resolve() on an absolute path without symbolic links
RECURSIVE ResolveFrom(_, _)
ResolveFrom(acc, rest) ==
    IF rest = <<>> THEN acc
    ELSE IF Head(rest) = DOTDOT
         THEN ResolveFrom(IF acc = <<>> THEN acc ELSE SubSeq(acc, 1, Len(acc) - 1),
                          Tail(rest))
    ELSE ResolveFrom(Append(acc, Head(rest)), Tail(rest))

Resolve(path) == ResolveFrom(<<>>, path)

\* str(path): every name behind a separator
PathStr(path) == Concat([i \in 1..Len(path) |-> <<"/">> \o path[i]])

\* Python: s.startswith(prefix)
StartsWith(str, prefix) ==
    Len(prefix) <= Len(str) /\ SubSeq(str, 1, Len(prefix)) = prefix

\* policy._SubpathOf
SubpathOf(parent, subpath) ==
    StartsWith(PathStr(Resolve(subpath)), PathStr(Resolve(parent)))

\* pathlib.Path(p).suffix
Suffix(path) == Last(Last(path))

\* the resolved path lies inside the resolved directory
IsDescendant(dir, path) ==
    /\ Len(Resolve(dir)) < Len(Resolve(path))
    /\ SubSeq(Resolve(path), 1, Len(Resolve(dir))) = Resolve(dir)

NoFile == RelPath(<<>>)

TextLine == [include |-> FALSE, file |-> NoFile]

IncludeLine(f) == [include |-> TRUE, file |-> f]

\* a plausible slip: the call one level above the limit is refused already
TooDeepOffByOne(max_depth) == max_depth <= 1

\* _Preprocess: "if not max_depth: raise RecursionTooDeepError"
TooDeep(max_depth) == max_depth = 0

(***************************************************************************)
(* pol2yaml: the conversion run.  A directory is [abs, dir] with dir the   *)
(* sequence of its names, a file is a directory plus stem and suffix; a    *)
(* relative path is relative to the working directory.  The file system is *)
(* [files, dirs], both sets of absolute paths.                             *)
(***************************************************************************)
Dir(is_abs, names) == [abs |-> is_abs, dir |-> names]

FilePath(d, stem, suffix) == [abs |-> d.abs, dir |-> d.dir, stem |-> stem, suffix |-> suffix]

\* pathlib.Path.cwd()
CWD == Dir(TRUE, <<"repo">>)

\* Path.resolve()
resolve(p) == IF p.abs THEN p ELSE [p EXCEPT !.abs = TRUE, !.dir = CWD.dir \o @]

\* Path.with_suffix(suffix)
with_suffix(p, suffix) == [p EXCEPT !.suffix = suffix]

\* Path.parent of a directory (the parent of Path('.') is Path('.'))
parent(d) == [d EXCEPT !.dir = IF @ = <<>> THEN @ ELSE SubSeq(@, 1, Len(@) - 1)]

\* the directory a file lies in
file_parent(p) == Dir(p.abs, p.dir)

\* Path.relative_to(directory) can be computed: otherwise it raises ValueError
is_relative_to(p, d) == p.abs = d.abs /\ StartsWith(p.dir, d.dir)

\* Path.relative_to(directory)
relative_to(p, d) ==
    [p EXCEPT !.abs = FALSE, !.dir = SubSeq(@, Len(d.dir) + 1, Len(@))]

\* Path(output_directory).joinpath(file).resolve(), file being relative
joinpath(d, p) == resolve([p EXCEPT !.abs = d.abs, !.dir = d.dir \o @])

\* Path.exists() on a file and on a directory
file_exists(fs, p) == resolve(p) \in fs.files

dir_exists(fs, d) == resolve(d) \in fs.dirs

\* a directory and all the directories above it
Ancestors(d) == {Dir(TRUE, SubSeq(resolve(d).dir, 1, n)) : n \in 0..Len(resolve(d).dir)}

\* Path(directory).rglob('*'): the files below the directory, named from it
rglob(fs, d) ==
    {[f EXCEPT !.abs = d.abs,
               !.dir = d.dir \o SubSeq(@, Len(resolve(d).dir) + 1, Len(@))] :
        f \in {g \in fs.files : StartsWith(g.dir, resolve(d).dir)}}

\* dict.update
Update(f, g) == [k \in DOMAIN f \cup DOMAIN g |-> IF k \in DOMAIN g THEN g[k] ELSE f[k]]

CONVERT_SUFFIXES == {".pol", ".inc", ".svc", ".net"}

\* _get_file_plan in convert mode: the input files it identifies
PlanInputs(fs, directory, options) ==
    IF options.file # <<>>
    THEN {resolve(options.file[i]) :
            i \in {j \in 1..Len(options.file) :
                     /\ options.file[j].suffix \in CONVERT_SUFFIXES
                     /\ file_exists(fs, options.file[j])}}
    ELSE {f \in rglob(fs, directory) : f.suffix \in CONVERT_SUFFIXES}

\* _get_file_plan in convert mode: the output path planned for an input file
PlanOutput(file, directory, options) ==
    IF options.output_directory.some
    THEN joinpath(options.output_directory.v,
                  relative_to(with_suffix(file, ".yaml"),
                              IF options.file # <<>> THEN directory ELSE parent(directory)))
    ELSE with_suffix(file, ".yaml")

\* _get_file_plan in convert mode: the plan of an output path
PlanOf(fs, out, options) ==
    IF options.output_directory.some /\ ~dir_exists(fs, file_parent(out))
    THEN "OUTPUT_MKDIR"
    ELSE IF file_exists(fs, out)
    THEN IF options.force THEN "OUTPUT_FORCE" ELSE "OUTPUT_CONFLICT"
    ELSE "OUTPUT"

\* _get_file_plan raises ValueError from relative_to
PlanFails(fs, directory, options) ==
    /\ options.output_directory.some
    /\ \E f \in PlanInputs(fs, directory, options) :
          ~is_relative_to(f, IF options.file # <<>> THEN directory ELSE parent(directory))

\* _get_file_plan in convert mode: the dictionary it returns
get_file_plan(fs, directory, options) ==
    LET inputs == PlanInputs(fs, directory, options)
        outputs == {PlanOutput(f, directory, options) : f \in inputs}
    IN Update([f \in inputs |-> "INPUT"], [o \in outputs |-> PlanOf(fs, o, options)])

\* _get_output_target: the directory the input file is taken relative to
TargetDirectory(directory, options) ==
    IF options.file # <<>> THEN directory ELSE parent(directory)

\* _get_output_target in convert mode
get_output_target(directory, input_file, options) ==
    IF options.output_directory.some
    THEN joinpath(options.output_directory.v,
                  relative_to(with_suffix(input_file, ".yaml"),
                              TargetDirectory(directory, options)))
    ELSE with_suffix(input_file, ".yaml")

\* _get_output_target raises ValueError from relative_to
TargetFails(directory, input_file, options) ==
    /\ options.output_directory.some
    /\ ~is_relative_to(input_file, TargetDirectory(directory, options))

\* the file system after the operations of the run so far
FsAfter(fs, ops) ==
    [files |-> fs.files \cup {o.path : o \in {x \in ops : x.op = "write"}},
     dirs |-> fs.dirs \cup UNION {Ancestors(o.path) : o \in {x \in ops : x.op = "mkdir"}}]

(***************************************************************************)
(* Idle values of the variable groups.                                     *)
(***************************************************************************)
PolicyIdle ==
    /\ terms = <<>>
    /\ filters = <<>>
    /\ pc = [op |-> "idle"]
    /\ raised = "none"
    /\ warnings = {}
    /\ calls = <<>>
    /\ policy = "absent"
    /\ before = <<>>
    /\ OPTIMIZE = TRUE
    /\ SHADE_CHECK = FALSE

FnIdle ==
    /\ arg = <<>>
    /\ ret = <<>>

(***************************************************************************)
(* SpecPorts: CollapsePortList on every port list within the bounds, then  *)
(* once more on its own output.                                            *)
(***************************************************************************)
InitPorts ==
    /\ PolicyIdle
    /\ arg \in SeqsUpTo(PortRanges, MaxPortListLen)
    /\ ret = <<>>

\* term.CollapsePortList(ports)
CallCollapsePortList ==
    /\ ret = <<>>
    /\ ret' = <<CollapsePortList(arg)>>
    /\ UNCHANGED <<arg, policyVars>>

\* term.CollapsePortList(previous result)
CallCollapsePortListAgain ==
    /\ Len(ret) = 1
    /\ ret' = Append(ret, CollapsePortList(ret[1]))
    /\ UNCHANGED <<arg, policyVars>>

NextPorts == CallCollapsePortList \/ CallCollapsePortListAgain

SpecPorts == InitPorts /\ [][NextPorts]_vars

\* C3: the collapsed list is sorted and any two consecutive ranges leave a
\* gap of at least one port (next.low > prev.high + 1): every nested,
\* overlapping, endpoint-sharing or contiguous pair has been merged.
C3_MinimalCover ==
    Len(ret) >= 1 =>
        \A i \in 1..(Len(ret[1]) - 1) : ret[1][i + 1][1] > ret[1][i][2] + 1

\* C4: the port numbers covered by the result are those covered by the input.
C4_CoveragePreserved ==
    Len(ret) >= 1 => Covered(ret[1]) = Covered(arg)

C4_Witness ==
    /\ Len(ret) >= 1
    /\ Len(arg) = 3
    /\ Len(ret[1]) = 1
    /\ Covered(arg) = 0..3

\* C5: collapsing a collapsed list gives the same list.
C5_Idempotent ==
    Len(ret) = 2 => ret[2] = ret[1]

C5_Witness ==
    /\ Len(ret) = 2
    /\ Len(arg) = 3
    /\ Len(ret[1]) = 2
    /\ ret[1] # arg

(***************************************************************************)
(* SpecAddr: CheckAddressIsContained on every pair of address lists (or    *)
(* None) within the bounds.                                                *)
(***************************************************************************)
AddrPool == {ANY4, LOW4, HIGH4, HOST0, HOST2, ANY6}

AddrLists == {None} \cup {Some(l) : l \in SeqsUpTo(AddrPool, MaxAddrListLen)}

InitAddr ==
    /\ PolicyIdle
    /\ arg \in [superset : AddrLists, subset : AddrLists]
    /\ ret = <<>>

\* term.CheckAddressIsContained(superset, subset)
CallCheckAddressIsContained ==
    /\ ret = <<>>
    /\ ret' = <<CheckAddressIsContained(arg.superset, arg.subset)>>
    /\ UNCHANGED <<arg, policyVars>>

NextAddr == CallCheckAddressIsContained

SpecAddr == InitAddr /\ [][NextAddr]_vars

\* C6 as claimed: an empty subset is always contained, and an empty superset
\* contains no non-empty subset.
C6_EmptySubsetContained ==
    (Len(ret) = 1 /\ arg.superset.some /\ arg.subset.some) =>
        /\ (arg.subset.v = <<>> => ret[1] = TRUE)
        /\ (arg.superset.v = <<>> /\ arg.subset.v # <<>> => ret[1] = FALSE)

\* C6 as the code has it: an empty (or None) superset restricts nothing and
\* contains every subset; a non-empty superset does not contain an empty (or
\* None) subset, which stands for any address.
C6_EmptySupersetContainsAll ==
    Len(ret) = 1 =>
        /\ (Not(arg.superset) => ret[1] = TRUE)
        /\ (Not(arg.subset) /\ ~Not(arg.superset) => ret[1] = FALSE)

C6_Witness ==
    /\ Len(ret) = 1
    /\ arg.subset = Some(<<>>)
    /\ arg.superset = Some(<<ANY4>>)
    /\ ret[1] = FALSE

(***************************************************************************)
(* SpecSanity: SanityCheck on every term built from the attribute values   *)
(* below.                                                                  *)
(***************************************************************************)
SanityPortChoices ==
    {[port |-> <<>>, source_port |-> <<>>, destination_port |-> <<>>],
     [port |-> <<<<1, 1>>>>, source_port |-> <<>>, destination_port |-> <<>>],
     [port |-> <<>>, source_port |-> <<<<1, 2>>>>, destination_port |-> <<>>],
     [port |-> <<>>, source_port |-> <<>>, destination_port |-> <<<<0, 3>>>>]}

\* every term built from the attribute values below
InitSanity ==
    /\ PolicyIdle
    /\ arg \in
        {[NewTerm EXCEPT
            !.verbatim = vb, !.action = ac, !.routing_instance = ri, !.next_ip = ni,
            !.encapsulate = en, !.filter_term = ft, !.port_mirror = pm,
            !.port = pt.port, !.source_port = pt.source_port,
            !.destination_port = pt.destination_port,
            !.protocol = pr, !.icmp_type = it, !.icmp_code = ic,
            !.ether_type = et, !.ttl = tl] :
            vb \in {<<>>, <<"raw">>},
            ac \in {<<>>, <<"accept">>},
            ri \in {PyNone, "vrf"},
            ni \in {<<>>, <<HOST1>>},
            en \in {PyNone, "template"},
            ft \in {PyNone, "inner"},
            pm \in {PyNone, "true"},
            pt \in SanityPortChoices,
            pr \in {<<>>, <<"tcp">>, <<"icmp">>, <<"tcp", "icmp">>, <<"udp", "300">>},
            it \in {<<>>, <<"echo-request">>, <<"redirect">>, <<"redirect", "unreachable">>,
                    <<"bogus">>},
            ic \in {<<>>, <<3>>, <<5>>},
            et \in {<<>>, <<"arp">>},
            tl \in {<<>>, <<300>>}}
    /\ ret = <<>>

\* term.SanityCheck()
CallSanityCheck ==
    /\ ret = <<>>
    /\ ret' = <<SanityCheck(arg)>>
    /\ UNCHANGED <<arg, policyVars>>

NextSanity == CallSanityCheck

SpecSanity == InitSanity /\ [][NextSanity]_vars

HasPorts(t) == t.port # <<>> \/ t.source_port # <<>> \/ t.destination_port # <<>>

\* C8: on a non-verbatim term with an action and no filter-term SanityCheck
\* raises MixedPortandNonPortProtos exactly when ports are declared and the
\* protocol list mixes port-bearing and other protocols, TermPortProtocolError
\* exactly when ports are declared and the non-empty protocol list has no
\* port-bearing protocol, and neither when all protocols are port-bearing or
\* no port is declared.
C8_PortProtocolErrors ==
    (/\ Len(ret) = 1
     /\ arg.verbatim = <<>>
     /\ arg.action # <<>>
     /\ ~IsSet(arg.filter_term)) =>
        LET with == Range(arg.protocol) \cap PROTOS_WITH_PORTS
            without == Range(arg.protocol) \ PROTOS_WITH_PORTS
        IN /\ ret[1] = "MixedPortandNonPortProtos" <=>
                (HasPorts(arg) /\ with # {} /\ without # {})
           /\ ret[1] = "TermPortProtocolError" <=>
                (HasPorts(arg) /\ with = {} /\ without # {})

C8_Witness ==
    /\ Len(ret) = 1
    /\ arg.source_port # <<>>
    /\ arg.protocol = <<"tcp", "icmp">>
    /\ ret[1] = "MixedPortandNonPortProtos"

\* the codes Term.ICMP_CODE lists for an icmp type: none for a type without
\* an entry
ValidCodes(ty) == IF ty \in DOMAIN ICMP_CODE THEN ICMP_CODE[ty] ELSE {}

\* C9: a term that passes the checks before the icmp-code check and has
\* icmp codes with other than exactly one icmp type, or with a code that is
\* not valid for its type, is rejected with ICMPCodeError.
C9_IcmpCodeError ==
    (/\ Len(ret) = 1
     /\ ret[1] \notin {"ParseError", "TermNoActionError", "InvalidTermActionError",
                       "MixedPortandNonPortProtos", "TermPortProtocolError",
                       "TermProtocolEtherTypeError"}
     /\ arg.icmp_code # <<>>
     /\ \/ Len(arg.icmp_type) # 1
        \/ \E i \in 1..Len(arg.icmp_code) :
              arg.icmp_code[i] \notin ValidCodes(arg.icmp_type[1]))
    => ret[1] = "ICMPCodeError"

\* C10: a term without verbatim content is rejected with TermNoActionError
\* exactly when action, routing_instance, next_ip, encapsulate, filter_term
\* and port_mirror are all unset; a verbatim term never is.
C10_NoActionError ==
    Len(ret) = 1 =>
        /\ arg.verbatim = <<>> =>
             (ret[1] = "TermNoActionError" <=>
                 /\ arg.action = <<>>
                 /\ arg.routing_instance = PyNone
                 /\ arg.next_ip = <<>>
                 /\ arg.encapsulate = PyNone
                 /\ arg.filter_term = PyNone
                 /\ arg.port_mirror = PyNone)
        /\ arg.verbatim # <<>> => ret[1] # "TermNoActionError"

C10_Witness ==
    /\ Len(ret) = 1
    /\ arg.verbatim = <<>>
    /\ arg.protocol = <<"tcp">>
    /\ arg.port # <<>>
    /\ ret[1] = "TermNoActionError"

(***************************************************************************)
(* Policy.AddFilter, one step at a time.                                   *)
(*   pc = [op |-> "idle"]                                                  *)
(*   pc = [op |-> "translate", list, idx, stage]   in _TranslateTerms, at  *)
(*        term list[idx], about to run the named stage on it               *)
(*   pc = [op |-> "shade", list, index, prior_index]  in _DetectShading,   *)
(*        about to evaluate "terms[index] in terms[prior_index]"           *)
(* Indexes count from 1.                                                   *)
(***************************************************************************)
Idle == [op |-> "idle"]

NoCalls == [ports |-> 0, cleanup |-> 0, sanity |-> 0]

\* AddFilter returns
Finish ==
    /\ pc' = Idle
    /\ policy' = "built"

\* an exception leaves AddFilter; out of Policy.__init__ it leaves no Policy
Raise(e) ==
    /\ pc' = Idle
    /\ raised' = e
    /\ policy' = IF policy = "constructing" THEN "absent" ELSE policy

\* Policy._TranslateTerms is done with term list[idx] of the term objects ts
AfterTerm(list, idx, ts) ==
    IF idx < Len(list)
    THEN /\ pc' = [op |-> "translate", list |-> list, idx |-> idx + 1, stage |-> "ports"]
         /\ UNCHANGED <<policy, before>>
    ELSE IF SHADE_CHECK
    THEN /\ before' = ts
         /\ IF Len(list) >= 2
            THEN /\ pc' = [op |-> "shade", list |-> list, index |-> 2, prior_index |-> 1]
                 /\ UNCHANGED policy
            ELSE Finish
    ELSE /\ Finish
         /\ UNCHANGED before

\* Policy.AddFilter up to the loop of _TranslateTerms
AddFilterBegin(header, list, fs) ==
    /\ filters' = Append(fs, [header |-> header, terms |-> list])
    /\ warnings' = {}
    /\ before' = <<>>
    /\ IF list = <<>>
       THEN /\ pc' = Idle
            /\ raised' = "NoTermsError"
            /\ policy' = IF fs = <<>> THEN "absent" ELSE policy
       ELSE /\ pc' = [op |-> "translate", list |-> list, idx |-> 1, stage |-> "ports"]
            /\ raised' = "none"
            /\ policy' = IF fs = <<>> THEN "constructing" ELSE policy
    /\ UNCHANGED <<terms, calls, OPTIMIZE, SHADE_CHECK, arg, ret>>

\* Policy.__init__(header, terms)
PolicyInit(header, list) ==
    /\ pc = Idle
    /\ policy = "absent"
    /\ \A id \in DOMAIN calls : calls[id].ports < MaxCalls
    /\ AddFilterBegin(header, list, <<>>)

\* Policy.AddFilter(header, terms) on a constructed Policy
AddFilter(header, list) ==
    /\ pc = Idle
    /\ policy = "built"
    /\ Len(filters) < MaxFilters
    /\ \A id \in DOMAIN calls : calls[id].ports < MaxCalls
    /\ AddFilterBegin(header, list, filters)

\* the statement that follows the port translation in _TranslateTerms
StageAfterPortsSanity == "sanity"

StageAfterPorts == "cleanup"

\* _TranslateTerms: "if term.translated: continue" and the three port blocks
TranslatePortsStep ==
    /\ pc.op = "translate"
    /\ pc.stage = "ports"
    /\ LET id == pc.list[pc.idx]
           r == TranslateTermPorts(terms[id], 1)
       IN IF terms[id].translated
          THEN /\ AfterTerm(pc.list, pc.idx, terms)
               /\ UNCHANGED <<terms, calls, raised>>
          ELSE /\ terms' = [terms EXCEPT ![id] = r.term]
               /\ calls' = [calls EXCEPT ![id].ports = @ + 1]
               /\ IF r.err # "none"
                  THEN Raise(r.err)
                  ELSE /\ pc' = [pc EXCEPT !.stage = StageAfterPorts]
                       /\ UNCHANGED <<raised, policy>>
               /\ UNCHANGED before
    /\ UNCHANGED <<filters, warnings, OPTIMIZE, SHADE_CHECK, arg, ret>>

\* _TranslateTerms: term.AddressCleanup(_OPTIMIZE, self._NeedsAddressBook())
AddressCleanupStep ==
    /\ pc.op = "translate"
    /\ pc.stage = "cleanup"
    /\ LET id == pc.list[pc.idx]
       IN /\ terms' = [terms EXCEPT
                          ![id] = AddressCleanup(@, OPTIMIZE, NeedsAddressBook(filters))]
          /\ calls' = [calls EXCEPT ![id].cleanup = @ + 1]
    /\ pc' = [pc EXCEPT !.stage = "sanity"]
    /\ UNCHANGED <<filters, raised, warnings, policy, before,
                   OPTIMIZE, SHADE_CHECK, arg, ret>>

\* _TranslateTerms: term.SanityCheck(); term.translated = True
SanityCheckStep ==
    /\ pc.op = "translate"
    /\ pc.stage = "sanity"
    /\ LET id == pc.list[pc.idx]
           e == SanityCheck(terms[id])
           ts == [terms EXCEPT ![id].translated = TRUE]
       IN /\ calls' = [calls EXCEPT ![id].sanity = @ + 1]
          /\ IF e # "none"
             THEN /\ Raise(e)
                  /\ UNCHANGED <<terms, before>>
             ELSE /\ terms' = ts
                  /\ AfterTerm(pc.list, pc.idx, ts)
                  /\ UNCHANGED raised
    /\ UNCHANGED <<filters, warnings, OPTIMIZE, SHADE_CHECK, arg, ret>>

\* a plausible slip: the test for 'next' left out
ShadesIgnoringNext(prior, term) == Contains(prior, term)

\* _DetectShading: the condition under which the warning is logged
Shades(prior, term) ==
    Contains(prior, term) /\ "next" \notin Range(prior.action)

\* _DetectShading: one evaluation of the condition of the inner loop.
\* Term.__contains__ flattens both terms once the protocol checks are passed.
DetectShadingStep ==
    /\ pc.op = "shade"
    /\ LET i == pc.index
           j == pc.prior_index
           prior == terms[pc.list[j]]
           term == terms[pc.list[i]]
       IN /\ terms' = IF ContainsProtocols(prior, term)
                      THEN [[terms EXCEPT ![pc.list[j]] = Flattened(@)]
                                   EXCEPT ![pc.list[i]] = Flattened(@)]
                      ELSE terms
          /\ warnings' = IF Shades(prior, term) THEN warnings \cup {<<i, j>>}
                         ELSE warnings
          /\ IF j + 1 < i
             THEN /\ pc' = [pc EXCEPT !.prior_index = j + 1]
                  /\ UNCHANGED policy
             ELSE IF i < Len(pc.list)
             THEN /\ pc' = [pc EXCEPT !.index = i + 1, !.prior_index = 1]
                  /\ UNCHANGED policy
             ELSE Finish
    /\ UNCHANGED <<filters, raised, calls, before, OPTIMIZE, SHADE_CHECK, arg, ret>>

(***************************************************************************)
(* SpecShade: _DetectShading over every list of up to MaxShadeTerms terms  *)
(* of a pool of translated terms, from the moment _TranslateTerms is done. *)
(***************************************************************************)
JUNIPER == <<Target("juniper", <<"edge-filter", "inet">>)>>

SRX == <<Target("srx", <<"from-zone", "to-zone">>)>>

\* what _TranslateTerms leaves of a term it has marked translated
IsTranslated(t) ==
    /\ t.translated
    /\ SanityCheck(t) = "none"
    /\ \A k \in 1..Len(PORT_FIELDS) :
          \A i \in 1..Len(t[PORT_FIELDS[k]]) : Len(t[PORT_FIELDS[k]][i]) = 2
    /\ AddressCleanup(t, TRUE, FALSE) = t

ShadeTerms ==
    {t \in {[NewTerm EXCEPT !.action = a,
                            !.source_address = sx[1],
                            !.source_address_exclude = sx[2],
                            !.protocol = pp[1],
                            !.port = pp[2],
                            !.translated = TRUE] :
               a \in {<<"accept">>, <<"next">>},
               sx \in {<< <<>>, <<>> >>, << <<ANY4>>, <<>> >>,
                       << <<ANY4>>, <<HOST0>> >>},
               pp \in {<< <<>>, <<>> >>, << <<"tcp">>, << <<1, 1>> >> >>}} :
        IsTranslated(t)}

InitShade ==
    /\ FnIdle
    /\ \E n \in 1..MaxShadeTerms :
          /\ terms \in [1..n -> ShadeTerms]
          /\ filters = <<[header |-> JUNIPER, terms |-> [i \in 1..n |-> i]]>>
          /\ calls = [i \in 1..n |-> [ports |-> 1, cleanup |-> 1, sanity |-> 1]]
          /\ pc = IF n >= 2
                  THEN [op |-> "shade", list |-> [i \in 1..n |-> i],
                        index |-> 2, prior_index |-> 1]
                  ELSE Idle
          /\ policy = IF n >= 2 THEN "constructing" ELSE "built"
    /\ before = terms
    /\ raised = "none"
    /\ warnings = {}
    /\ OPTIMIZE = TRUE
    /\ SHADE_CHECK = TRUE

NextShade == DetectShadingStep

SpecShade == InitShade /\ [][NextShade]_vars

\* the term list of the filter added last
LastTerms == filters[Len(filters)].terms

\* the pairs <<index, prior_index>> _DetectShading has evaluated so far
Evaluated ==
    {q \in (1..Len(LastTerms)) \X (1..Len(LastTerms)) :
        /\ q[2] < q[1]
        /\ \/ pc.op = "idle"
           \/ pc.op = "shade" /\ q[1] < pc.index
           \/ pc.op = "shade" /\ q[1] = pc.index /\ q[2] < pc.prior_index}

\* C1: at every point of the shading pass, the pairs reported so far are
\* exactly the evaluated pairs <<i, j>>, j < i, where terms[j] contains
\* terms[i] and 'next' is not among the actions of terms[j]; so a prior term
\* with 'next' shades nothing and no term is shaded by itself or a later one.
C1_ShadingReports ==
    before # <<>> =>
        warnings = {q \in Evaluated :
                       /\ Contains(before[LastTerms[q[2]]], before[LastTerms[q[1]]])
                       /\ "next" \notin Range(before[LastTerms[q[2]]].action)}

\* a finished pass over three terms in which term 3 is reported as shaded by
\* term 1 and is contained in term 2, whose action is 'next', without a report
C1_Witness ==
    /\ pc = Idle
    /\ before # <<>>
    /\ Len(LastTerms) = 3
    /\ <<3, 1>> \in warnings
    /\ <<3, 2>> \notin warnings
    /\ Contains(before[2], before[3])
    /\ "next" \in Range(before[2].action)

\* the fields of a term other than the flattening cache
IrFields(t) ==
    [t EXCEPT !.flattened = FALSE, !.flattened_addr = None,
              !.flattened_saddr = None, !.flattened_daddr = None]

\* C2: during and after the shading pass every field of every term (the
\* flattening cache aside) is what it was when the pass began.
C2_ShadingLeavesTermsUnchanged ==
    before # <<>> =>
        \A id \in DOMAIN terms : IrFields(terms[id]) = IrFields(before[id])

(***************************************************************************)
(* Spec: a Policy is constructed and filters are added to it, over         *)
(* NumTerms Term objects drawn from the terms below.  The flags are those  *)
(* ParsePolicy sets: _OPTIMIZE and _SHADE_CHECK either way,                *)
(* _PRESERVE_ORIGINAL false.                                               *)
(***************************************************************************)
\* tcp service on two hosts, one of them excluded
TermWeb ==
    [NewTerm EXCEPT !.action = <<"accept">>, !.protocol = <<"tcp">>,
                    !.port = << <<"HTTP">> >>,
                    !.source_address = <<HOST1, HOST0>>,
                    !.source_address_exclude = <<HOST1>>]

\* everything from anywhere, evaluation goes on
TermNext == [NewTerm EXCEPT !.action = <<"next">>, !.source_address = <<ANY4>>]

\* the destination port has no definition under the protocol of the term
TermBadDport ==
    [NewTerm EXCEPT !.action = <<"accept">>, !.protocol = <<"udp">>,
                    !.port = << <<"DNS">>, <<"HIGH_PORTS">> >>,
                    !.destination_port = << <<"HTTP">> >>]

\* no action
TermNoAction == [NewTerm EXCEPT !.source_address = <<HOST1, HOST0>>]

SpecTerms == {TermWeb, TermNext, TermBadDport, TermNoAction}

\* the term lists a caller hands over: Term objects, none of them twice.
\* Init places every term at every id, so the lists in ascending id order
\* stand for the others.
TermLists == {l \in SeqsUpTo(1..NumTerms, NumTerms) :
                 \A i, j \in 1..Len(l) : i < j => l[i] < l[j]}

Init ==
    /\ FnIdle
    /\ terms \in [1..NumTerms -> SpecTerms]
    /\ filters = <<>>
    /\ pc = Idle
    /\ raised = "none"
    /\ warnings = {}
    /\ calls = [id \in 1..NumTerms |-> NoCalls]
    /\ policy = "absent"
    /\ before = <<>>
    /\ OPTIMIZE \in BOOLEAN
    /\ SHADE_CHECK \in BOOLEAN

\* a policy starts with a filter for either platform; the filters added to
\* it later are for the platform that needs an address book
Next ==
    \/ \E header \in {JUNIPER, SRX}, list \in TermLists : PolicyInit(header, list)
    \/ \E header \in {SRX}, list \in TermLists : AddFilter(header, list)
    \/ TranslatePortsStep
    \/ AddressCleanupStep
    \/ SanityCheckStep
    \/ DetectShadingStep

Spec == Init /\ [][Next]_vars

C12_NoEmptyFilter ==
    (policy = "built" /\ pc = Idle) =>
        /\ filters # <<>>
        /\ \A i \in 1..Len(filters) : filters[i].terms # <<>>

(***************************************************************************)
(* SpecTerm: a Policy over one Term object, drawn from a wider set of      *)
(* terms than Spec uses.  arg keeps the terms as the caller built them.    *)
(***************************************************************************)
\* a port under a protocol that has no ports
TermIcmpPort ==
    [NewTerm EXCEPT !.action = <<"accept">>, !.protocol = <<"icmp">>,
                    !.port = << <<"3">> >>]

\* ports, and no protocol
TermPortNoProtocol ==
    [NewTerm EXCEPT !.action = <<"accept">>, !.port = << <<"HTTP">> >>]

TermSportNoProtocol ==
    [NewTerm EXCEPT !.action = <<"deny">>, !.source_port = << <<"3">> >>,
                    !.destination_address = <<HIGH4>>]

TermDportNoProtocol ==
    [NewTerm EXCEPT !.action = <<"accept">>,
                    !.destination_port = << <<"DNS">>, <<"HIGH_PORTS">> >>]

\* two protocols, services defined under one or both of them
TermTcpUdp ==
    [NewTerm EXCEPT !.action = <<"accept">>, !.protocol = <<"tcp", "udp">>,
                    !.port = << <<"HTTP">> >>,
                    !.destination_port = << <<"HIGH_PORTS">>, <<"DNS">> >>]

OneTerms ==
    {TermWeb, TermNext, TermBadDport, TermNoAction, TermIcmpPort,
     TermPortNoProtocol, TermSportNoProtocol, TermDportNoProtocol, TermTcpUdp}

InitTerm ==
    /\ terms \in [1..1 -> OneTerms]
    /\ arg = terms
    /\ ret = <<>>
    /\ filters = <<>>
    /\ pc = Idle
    /\ raised = "none"
    /\ warnings = {}
    /\ calls = [id \in 1..1 |-> NoCalls]
    /\ policy = "absent"
    /\ before = <<>>
    /\ OPTIMIZE \in BOOLEAN
    /\ SHADE_CHECK \in BOOLEAN

NextTerm ==
    \/ \E header \in {JUNIPER, SRX}, list \in {<<>>, <<1>>} : PolicyInit(header, list)
    \/ \E header \in {JUNIPER, SRX}, list \in {<<>>, <<1>>} : AddFilter(header, list)
    \/ TranslatePortsStep
    \/ AddressCleanupStep
    \/ SanityCheckStep

SpecTerm == InitTerm /\ [][NextTerm]_vars

\* C11: once AddFilter is through with a term that was built with an action,
\* with ports and without a protocol, no port/protocol error was raised, the
\* term is translated and it still has ports.
C11_PortsWithoutProtocol ==
    \A id \in DOMAIN terms :
        (/\ pc = Idle
         /\ calls[id].ports >= 1
         /\ arg[id].action # <<>>
         /\ arg[id].protocol = <<>>
         /\ HasPorts(arg[id]))
        => /\ raised \notin {"TermPortProtocolError", "MixedPortandNonPortProtos"}
           /\ terms[id].translated
           /\ HasPorts(terms[id])

(***************************************************************************)
(* SpecBuild: a term is built by up to MaxLines AddObject calls.  arg is   *)
(* the list of the objects handed over so far, before the term as it was   *)
(* ahead of the latest call.                                               *)
(***************************************************************************)
BuildObjects ==
    {Single(VarType("ACTION", "accept")), Single(VarType("ACTION", "deny")),
     Single(VarType("ACTION", "godofoobar")),
     Single(VarType("POLICER", "batman")), Single(VarType("POLICER", "robin")),
     Single(VarType("VERBATIM", "raw-one")), Single(VarType("VERBATIM", "raw-two")),
     Single(VarType("PRECEDENCE", <<1>>)), Single(VarType("PRECEDENCE", <<2>>)),
     Single(VarType("NOT_A_TYPE", "x")),
     ListOf(<<VarType("PROTOCOL", "tcp"), VarType("PROTOCOL", "udp")>>),
     ListOf(<<VarType("SADDRESS", "HOSTS"), VarType("SADDRESS", "HIGH")>>),
     ListOf(<<VarType("PORT", "HTTP"), VarType("NOT_A_TYPE", "x")>>)}

InitBuild ==
    /\ terms = <<NewTerm>>
    /\ before = <<NewTerm>>
    /\ arg = <<>>
    /\ ret = <<>>
    /\ filters = <<>>
    /\ pc = Idle
    /\ raised = "none"
    /\ warnings = {}
    /\ calls = <<>>
    /\ policy = "absent"
    /\ OPTIMIZE = TRUE
    /\ SHADE_CHECK = FALSE

\* term.AddObject(obj)
CallAddObject(obj) ==
    /\ Len(arg) < MaxLines
    /\ LET r == AddObject(terms[1], obj)
       IN /\ terms' = <<r.term>>
          /\ raised' = r.err
    /\ before' = terms
    /\ arg' = Append(arg, obj)
    /\ UNCHANGED <<ret, filters, pc, warnings, calls, policy, OPTIMIZE, SHADE_CHECK>>

NextBuild == \E obj \in BuildObjects : CallAddObject(obj)

SpecBuild == InitBuild /\ [][NextBuild]_vars

\* the object of the latest AddObject call is an action outside the vocabulary
LastIsBadAction ==
    /\ arg # <<>>
    /\ ~Last(arg).list
    /\ Last(arg).items[1].var_type = "ACTION"
    /\ Last(arg).items[1].value \notin TERM_ACTIONS

\* C13: every element of term.action is in the action vocabulary, and an
\* AddObject call with an action outside it raises InvalidTermActionError
\* and leaves every field of the term as it was.
C13_ActionVocabulary ==
    /\ \A i \in 1..Len(terms[1].action) : terms[1].action[i] \in TERM_ACTIONS
    /\ LastIsBadAction => (raised = "InvalidTermActionError" /\ terms = before)

\* an invalid action was rejected on a term that already had attributes
C13_Witness ==
    /\ LastIsBadAction
    /\ raised = "InvalidTermActionError"
    /\ terms[1].action # <<>>
    /\ terms[1].protocol # <<>>

\* the values of the valid action lines among objs, in call order
RECURSIVE ValidActions(_)
ValidActions(objs) ==
    IF objs = <<>> THEN <<>>
    ELSE LET x == Head(objs).items[1]
         IN (IF ~Head(objs).list /\ x.var_type = "ACTION" /\ x.value \in TERM_ACTIONS
             THEN <<x.value>> ELSE <<>>) \o ValidActions(Tail(objs))

\* C14 as stated: a term never holds more than one action.
C14_OneActionPerTerm == Len(terms[1].action) <= 1

\* C14: action lines accumulate.  term.action holds the values of all valid
\* action lines in the order of the calls, and SanityCheck gives the same
\* verdict on the term with all its actions as with its first action alone.
C14_ActionsAccumulate ==
    /\ terms[1].action = ValidActions(arg)
    /\ terms[1].action # <<>> =>
          SanityCheck(terms[1]) =
             SanityCheck([terms[1] EXCEPT !.action = <<terms[1].action[1]>>])

\* a term with two actions that passes SanityCheck
C14_Witness ==
    /\ Len(terms[1].action) = 2
    /\ terms[1].action[1] # terms[1].action[2]
    /\ SanityCheck(terms[1]) = "none"

\* the term a list of AddObject calls builds
RECURSIVE ApplyAll(_, _)
ApplyAll(t, objs) ==
    IF objs = <<>> THEN t ELSE ApplyAll(AddObject(t, Head(objs)).term, Tail(objs))

\* C15: when none of the calls raised, handing the same objects over in any
\* other order builds a term that is equal under Term.__eq__.
C15_OrderIrrelevant ==
    (\A i \in 1..Len(arg) : AddObject(NewTerm, arg[i]).err = "none") =>
        \A q \in Permutations(1..Len(arg)) :
            TermEq(terms[1], ApplyAll(NewTerm, [i \in 1..Len(arg) |-> arg[q[i]]]))

(***************************************************************************)
(* SpecInclude: _Preprocess(data, base_dir = /pol) over a file system.     *)
(* arg = [data, base_dir, files]; pc.stack holds the active calls of       *)
(* _Preprocess, the innermost last; ret is the text produced so far; calls *)
(* lists the #include lines handled, with the nesting level of each.       *)
(***************************************************************************)
BaseDir == <<POL>>

IncludeNames == <<"a", "b", "c", "d">>

InsideFile(i) == <<POL, IncName(IncludeNames[i])>>

InsideFiles == {InsideFile(i) : i \in 1..Len(IncludeNames)}

SiblingFile == <<POL2, IncName("x")>>

OutsideFile == <<ETC, IncName("x")>>

SiblingInclude == RelPath(<<DOTDOT, POL2, IncName("x")>>)

\* the #include lines that file i of the model may contain: of itself, of the
\* first file, of the next one, and of the file in the sibling directory
NestedIncludes(i) ==
    {RelPath(<<IncName(IncludeNames[j])>>) :
        j \in {i, 1, i + 1} \cap 1..Len(IncludeNames)} \cup {SiblingInclude}

\* the #include lines of the policy text itself
TopIncludes ==
    {RelPath(<<IncName(IncludeNames[1])>>), SiblingInclude,
     RelPath(<<DOTDOT, ETC, IncName("x")>>), AbsPath(<<ETC, IncName("x")>>),
     RelPath(<<DOTDOT, POL, IncName("a")>>), RelPath(<<<<"a", ".txt">>>>)}

Missing == [exists |-> FALSE, lines |-> <<>>]

File(lines) == [exists |-> TRUE, lines |-> lines]

FileContents(i) ==
    {File(<<TextLine>>)} \cup
        {File(<<TextLine, IncludeLine(f)>>) : f \in NestedIncludes(i)}

InitInclude ==
    /\ \E inside \in [1..Len(IncludeNames) ->
                           UNION {FileContents(i) : i \in 1..Len(IncludeNames)}
                               \cup {Missing}],
          sibling \in {Missing, File(<<TextLine>>)},
          outside \in {Missing, File(<<TextLine>>)},
          f \in TopIncludes :
          /\ \A i \in 1..Len(IncludeNames) :
                \/ inside[i] \in FileContents(i)
                \/ i = Len(IncludeNames) /\ inside[i] = Missing
          /\ arg = [data |-> <<TextLine, IncludeLine(f)>>,
                    base_dir |-> BaseDir,
                    files |-> [q \in InsideFiles \cup {SiblingFile, OutsideFile} |->
                                  IF q \in InsideFiles
                                  THEN inside[CHOOSE i \in 1..Len(IncludeNames) :
                                                  InsideFile(i) = q]
                                  ELSE IF q = SiblingFile THEN sibling ELSE outside]]
    /\ pc = [op |-> "preprocess",
             stack |-> <<[lines |-> arg.data, max_depth |-> DEFAULT_MAX_DEPTH]>>]
    /\ ret = <<>>
    /\ calls = <<>>
    /\ raised = "none"
    /\ terms = <<>>
    /\ filters = <<>>
    /\ warnings = {}
    /\ policy = "absent"
    /\ before = <<>>
    /\ OPTIMIZE = TRUE
    /\ SHADE_CHECK = FALSE

\* _ReadFile: os.path.exists(filename)
FileExists(path) ==
    Resolve(path) \in DOMAIN arg.files /\ arg.files[Resolve(path)].exists

\* _Preprocess: one iteration of "for line in ..." of the innermost call
PreprocessLine ==
    /\ pc.op = "preprocess"
    /\ Last(pc.stack).lines # <<>>
    /\ LET n == Len(pc.stack)
           frame == pc.stack[n]
           line == Head(frame.lines)
           include_path == PathJoin(arg.base_dir, line.file)
           rest == [pc.stack EXCEPT ![n].lines = Tail(@)]
           fail(e) == pc' = Idle /\ raised' = e /\ UNCHANGED ret
       IN IF ~line.include
          THEN /\ ret' = Append(ret, line)
               /\ pc' = [pc EXCEPT !.stack = rest]
               /\ UNCHANGED <<raised, calls>>
          ELSE /\ calls' = Append(calls, [path |-> include_path, level |-> n])
               /\ IF Suffix(include_path) # ".inc" THEN fail("BadIncludePath")
                  ELSE IF ~SubpathOf(arg.base_dir, include_path)
                  THEN fail("BadIncludePath")
                  ELSE IF ~FileExists(include_path) THEN fail("FileNotFoundError")
                  ELSE IF TooDeep(frame.max_depth - 1)
                  THEN fail("RecursionTooDeepError")
                  ELSE /\ pc' = [pc EXCEPT !.stack =
                                   Append(rest,
                                          [lines |-> arg.files[Resolve(include_path)].lines,
                                           max_depth |-> frame.max_depth - 1])]
                       /\ UNCHANGED <<raised, ret>>
    /\ UNCHANGED <<arg, terms, filters, warnings, policy, before, OPTIMIZE, SHADE_CHECK>>

\* _Preprocess: the innermost call returns rval
PreprocessReturn ==
    /\ pc.op = "preprocess"
    /\ Last(pc.stack).lines = <<>>
    /\ pc' = IF Len(pc.stack) = 1 THEN Idle
             ELSE [pc EXCEPT !.stack = SubSeq(@, 1, Len(@) - 1)]
    /\ UNCHANGED <<arg, ret, raised, calls, terms, filters, warnings, policy, before,
                   OPTIMIZE, SHADE_CHECK>>

NextInclude == PreprocessLine \/ PreprocessReturn

SpecInclude == InitInclude /\ [][NextInclude]_vars

\* a call of _Preprocess in progress is never held up
SpecIncludeFair == SpecInclude /\ WF_vars(NextInclude)

\* C16: an #include whose resolved path is not a descendant of the base
\* directory ends _Preprocess with BadIncludePath, whether the file exists
\* or not: nothing is read from it and no other error is raised for it.
C16_IncludeOutsideBase ==
    \A i \in 1..Len(calls) :
        ~IsDescendant(arg.base_dir, calls[i].path) =>
            (i = Len(calls) /\ pc = Idle /\ raised = "BadIncludePath")

\* C17: _Preprocess terminates.  Meanwhile every nested call runs with a
\* depth counter one below that of its caller; an #include nested up to 4
\* levels deep never ends in RecursionTooDeepError, and one nested 5 levels
\* deep, when its file is there to be read, always does.
C17_PreprocessTerminates ==
    /\ <>(pc = Idle)
    /\ [](pc.op = "preprocess" =>
            \A k \in 1..Len(pc.stack) :
                pc.stack[k].max_depth = DEFAULT_MAX_DEPTH - (k - 1))
    /\ [](\A i \in 1..Len(calls) :
            /\ calls[i].level <= DEFAULT_MAX_DEPTH
            /\ calls[i].level = DEFAULT_MAX_DEPTH =>
                  (i = Len(calls) /\ pc = Idle /\ raised # "none"))
    /\ [](raised = "RecursionTooDeepError" =>
            Last(calls).level = DEFAULT_MAX_DEPTH)

\* an include chain four levels deep has been expanded in full
C17_Witness ==
    /\ pc = Idle
    /\ raised = "none"
    /\ \E i \in 1..Len(calls) : calls[i].level = DEFAULT_MAX_DEPTH - 1
    /\ Len(ret) = DEFAULT_MAX_DEPTH

(***************************************************************************)
(* SpecLex: lexing and parsing of a one-line policy text.  The text (arg)  *)
(* is a sequence of lexemes separated by blanks; pc holds the position of  *)
(* the lexer and the state of the parser, ret the tokens handed to the     *)
(* parser, warnings the lines t_error has printed.                         *)
(***************************************************************************)
\* the keywords of "reserved" that the model's texts use
reserved ==
    [w \in {"header", "term", "target", "action"} |->
        CASE w = "header" -> "HEADER"
          [] w = "term" -> "TERM"
          [] w = "target" -> "TARGET"
          [] w = "action" -> "ACTION"]

literals == {":", "{", "}"}

\* the lexemes that t_STRING matches
Words == DOMAIN reserved \cup {"juniper", "accept", "t"}

\* the token a lexeme is turned into, "none" when no rule matches it
TokenType(lexeme) ==
    IF lexeme \in literals THEN lexeme
    ELSE IF lexeme \in DOMAIN reserved THEN reserved[lexeme]
    ELSE IF lexeme \in Words THEN "STRING"
    ELSE "none"

\* the grammar of file, target, header, header_spec, target_spec, terms,
\* term_spec and action_spec, without comments, as a transition table:
\* the state of the parser after one more token, "error" when p_error runs,
\* "TypeError" when p_target_spec builds a Target from no words at all
ParserStep(state, tok) ==
    CASE state = "file" /\ tok = "HEADER" -> "header"
      [] state = "header" /\ tok = "{" -> "header_spec"
      [] state \in {"header_spec", "strings_or_ints"} /\ tok = "TARGET" -> "target_spec"
      [] state \in {"header_spec", "strings_or_ints"} /\ tok = "}" -> "terms"
      [] state = "target_spec" /\ tok = ":" -> "target_spec:"
      [] state = "target_spec:" /\ tok = ":" -> "target_value"
      [] state = "target_value" /\ tok = "STRING" -> "strings_or_ints"
      [] state = "target_value" /\ tok \in {"TARGET", "}"} -> "TypeError"
      [] state = "strings_or_ints" /\ tok = "STRING" -> "strings_or_ints"
      [] state = "terms" /\ tok = "HEADER" -> "header"
      [] state = "terms" /\ tok = "TERM" -> "term"
      [] state = "term" /\ tok = "STRING" -> "term_name"
      [] state = "term_name" /\ tok = "{" -> "term_spec"
      [] state = "term_spec" /\ tok = "ACTION" -> "action_spec"
      [] state = "term_spec" /\ tok = "}" -> "terms"
      [] state = "action_spec" /\ tok = ":" -> "action_spec:"
      [] state = "action_spec:" /\ tok = ":" -> "action_value"
      [] state = "action_value" /\ tok = "STRING" -> "term_spec"
      [] OTHER -> "error"

\* lexer.token(): a lexeme that a token rule matches goes to the parser
LexToken ==
    /\ pc.op = "lex"
    /\ pc.pos <= Len(arg)
    /\ TokenType(arg[pc.pos]) # "none"
    /\ LET next == ParserStep(pc.state, TokenType(arg[pc.pos]))
       IN IF next \in {"error", "TypeError"}
          THEN /\ pc' = Idle
               /\ raised' = IF next = "error" THEN "ParseError" ELSE next
               /\ UNCHANGED ret
          ELSE /\ pc' = [pc EXCEPT !.pos = @ + 1, !.state = next]
               /\ ret' = Append(ret, TokenType(arg[pc.pos]))
               /\ UNCHANGED raised
    /\ UNCHANGED <<arg, warnings, policy, terms, filters, calls, before, OPTIMIZE,
                   SHADE_CHECK>>

\* t_error: print the character and its line, skip it, lexing goes on
t_error ==
    /\ pc.op = "lex"
    /\ pc.pos <= Len(arg)
    /\ TokenType(arg[pc.pos]) = "none"
    /\ warnings' = warnings \cup {<<"Illegal character", arg[pc.pos], pc.pos>>}
    /\ pc' = [pc EXCEPT !.pos = @ + 1]
    /\ UNCHANGED <<arg, ret, raised, policy, terms, filters, calls, before, OPTIMIZE,
                   SHADE_CHECK>>

\* the end of the text: parser.parse returns what p_file built
ParseEnd ==
    /\ pc.op = "lex"
    /\ pc.pos > Len(arg)
    /\ pc' = Idle
    /\ IF pc.state = "terms"
       THEN policy' = "present" /\ UNCHANGED raised
       ELSE IF pc.state = "file"
       THEN raised' = "AttributeError" /\ UNCHANGED policy
       ELSE raised' = "ParseError" /\ UNCHANGED policy
    /\ UNCHANGED <<arg, ret, warnings, terms, filters, calls, before, OPTIMIZE,
                   SHADE_CHECK>>

PolicyText ==
    <<"header", "{", "target", ":", ":", "juniper", "}",
      "term", "t", "{", "action", ":", ":", "accept", "}">>

\* characters that no token rule matches
IllegalCharacters == {"$", "!"}

InsertAt(text, i, c) == SubSeq(text, 1, i) \o <<c>> \o SubSeq(text, i + 1, Len(text))

LexTexts ==
    {PolicyText, <<>>}
        \cup {InsertAt(PolicyText, i, c) : i \in 0..Len(PolicyText), c \in IllegalCharacters}
        \cup {[PolicyText EXCEPT ![i] = c] : i \in 1..Len(PolicyText), c \in IllegalCharacters}

InitLex ==
    /\ arg \in LexTexts
    /\ pc = [op |-> "lex", pos |-> 1, state |-> "file"]
    /\ ret = <<>>
    /\ warnings = {}
    /\ raised = "none"
    /\ policy = "absent"
    /\ terms = <<>>
    /\ filters = <<>>
    /\ calls = <<>>
    /\ before = <<>>
    /\ OPTIMIZE = TRUE
    /\ SHADE_CHECK = FALSE

NextLex == LexToken \/ t_error \/ ParseEnd

SpecLex == InitLex /\ [][NextLex]_vars

\* C18: once the lexer has met a character that no token rule matches, the
\* parse ends with an error and produces no Policy.
C18_IllegalCharacterIsFatal ==
    (pc = Idle /\ warnings # {}) => (policy = "absent" /\ raised # "none")

(***************************************************************************)
(* SpecContains: "other in self" on three Term objects A, B, C (terms[1],  *)
(* terms[2], terms[3]).  ret lists the evaluations made so far; before     *)
(* holds the terms as they were built.                                     *)
(***************************************************************************)
TermAccept == [NewTerm EXCEPT !.action = <<"accept">>]

ContainTerms ==
    {TermAccept,
     [TermAccept EXCEPT !.protocol = <<"tcp">>],
     [TermAccept EXCEPT !.protocol = <<"udp">>],
     [TermAccept EXCEPT !.protocol_except = <<"tcp">>],
     [TermAccept EXCEPT !.protocol_except = <<"tcp", "udp">>],
     [TermAccept EXCEPT !.address = <<ANY4>>],
     [TermAccept EXCEPT !.source_address = <<LOW4>>],
     [TermAccept EXCEPT !.protocol = <<"icmp">>, !.icmp_type = <<"echo-request">>],
     [TermAccept EXCEPT !.platform = <<"juniper">>],
     [TermAccept EXCEPT !.source_zone = <<"trust">>]}

\* the evaluations the model makes: <<self, other>>
ContainPairs == {<<1, 1>>, <<1, 2>>, <<2, 3>>, <<1, 3>>}

InitContains ==
    /\ terms \in [1..3 -> ContainTerms]
    /\ before = terms
    /\ ret = <<>>
    /\ arg = <<>>
    /\ filters = <<>>
    /\ pc = Idle
    /\ raised = "none"
    /\ warnings = {}
    /\ calls = <<>>
    /\ policy = "absent"
    /\ OPTIMIZE = TRUE
    /\ SHADE_CHECK = FALSE

\* terms[other] in terms[self]: Term.__contains__, which flattens both terms
ContainsCall(self, other) ==
    /\ \A k \in 1..Len(ret) : <<ret[k].self, ret[k].other>> # <<self, other>>
    /\ ret' = Append(ret, [self |-> self, other |-> other,
                           result |-> Contains(terms[self], terms[other])])
    /\ terms' = [terms EXCEPT ![self] = Flattened(@), ![other] = Flattened(@)]
    /\ UNCHANGED <<arg, filters, pc, raised, warnings, calls, policy, before,
                   OPTIMIZE, SHADE_CHECK>>

NextContains == \E p \in ContainPairs : ContainsCall(p[1], p[2])

SpecContains == InitContains /\ [][NextContains]_vars

\* the value of "terms[other] in terms[self]", once evaluated
Evaluation(self, other) ==
    {ret[k].result : k \in {j \in 1..Len(ret) : ret[j].self = self /\ ret[j].other = other}}

\* C19: every term T that passes SanityCheck satisfies "T in T".
C19_ContainsReflexive ==
    SanityCheck(before[1]) = "none" => FALSE \notin Evaluation(1, 1)

\* C20: for all terms A, B, C: if B in A and C in B, then C in A.
C20_ContainsTransitive ==
    (TRUE \in Evaluation(1, 2) /\ TRUE \in Evaluation(2, 3)) =>
        FALSE \notin Evaluation(1, 3)

(***************************************************************************)
(* SpecPair: "B in A" for two Term objects A = terms[1], B = terms[2] that *)
(* set a protocol list and at most a few other fields.  before holds the   *)
(* terms as built, ret the value of the evaluation once it is made.        *)
(***************************************************************************)
\* a term with the fields of e set to the values e gives
WithFields(t, e) == [f \in DOMAIN t |-> IF f \in DOMAIN e THEN e[f] ELSE t[f]]

PREFIX_TAG_FIELDS ==
    {"source_prefix", "source_prefix_except", "destination_prefix",
     "destination_prefix_except", "source_tag", "destination_tag"}

IDENTITY_FIELDS ==
    {"icmp_type", "icmp_code", "platform", "platform_exclude", "source_zone",
     "destination_zone"}

PairFieldSettings ==
    {[f \in {} |-> <<>>]}
        \cup {[f \in {g} |-> v] : g \in PREFIX_TAG_FIELDS, v \in {<<"a">>, <<"b">>}}
        \cup {[source_tag |-> <<"a">>, destination_tag |-> v] : v \in {<<"a">>, <<"b">>}}
        \cup {[platform |-> v] : v \in {<<"juniper">>, <<"cisco">>}}
        \cup {[icmp_type |-> <<"echo-request">>], [source_zone |-> <<"trust">>],
              [destination_zone |-> <<"trust">>], [platform_exclude |-> <<"juniper">>],
              [icmp_type |-> <<"unreachable">>, icmp_code |-> <<3>>],
              [address |-> <<ANY4>>]}

PairProtocols == {<<>>, <<"tcp">>, <<"udp">>, <<"tcp", "udp">>, <<"udp", "tcp">>}

InitPair ==
    /\ terms \in [1..2 -> {WithFields([TermAccept EXCEPT !.protocol = p], e) :
                              p \in PairProtocols, e \in PairFieldSettings}]
    /\ \A i \in 1..2 : SanityCheck(terms[i]) = "none"
    /\ before = terms
    /\ ret = <<>>
    /\ arg = <<>>
    /\ filters = <<>>
    /\ pc = Idle
    /\ raised = "none"
    /\ warnings = {}
    /\ calls = <<>>
    /\ policy = "absent"
    /\ OPTIMIZE = TRUE
    /\ SHADE_CHECK = FALSE

NextPair == ContainsCall(1, 2)

SpecPair == InitPair /\ [][NextPair]_vars

SameSet(a, b) == Range(a) = Range(b)

\* the two terms as built differ in nothing but their protocol lists
DifferOnlyInProtocol ==
    [before[1] EXCEPT !.protocol = <<>>] = [before[2] EXCEPT !.protocol = <<>>]

\* C21: when A has a non-empty protocol list, B in A only if B's protocol
\* list is a non-empty subset of A's; and when A and B differ in nothing
\* but protocol, B in A whenever B's list is a non-empty subset of A's.
C21_ProtocolSubset ==
    LET A == before[1]
        B == before[2]
        subset == B.protocol # <<>> /\ Range(B.protocol) \subseteq Range(A.protocol)
    IN (ret # <<>> /\ A.protocol # <<>>) =>
          /\ ret[1].result => subset
          /\ (DifferOnlyInProtocol /\ subset) => ret[1].result

\* C22: B in A only if each prefix list and each tag list of A equals that
\* of B as a set.
C22_PrefixesAndTagsEqual ==
    (ret # <<>> /\ ret[1].result) =>
        \A f \in PREFIX_TAG_FIELDS : SameSet(before[1][f], before[2][f])

\* C23: two terms that agree on every field, set no address and carry a
\* non-empty icmp_type, icmp_code, platform, platform_exclude or zone list
\* satisfy B in A.
C23_IdentityFieldsEqual ==
    (/\ ret # <<>>
     /\ before[1] = before[2]
     /\ before[1].address = <<>>
     /\ \E f \in IDENTITY_FIELDS : before[1][f] # <<>>) => ret[1].result

(***************************************************************************)
(* SpecConvert: one run of pol2yaml in convert mode.  arg holds the        *)
(* options, before the file system before the run, ret the file plan,      *)
(* calls the directories made and the files written so far, warnings the   *)
(* log, pc the position in pol2yaml.                                       *)
(***************************************************************************)
PoliciesDir == Dir(TRUE, <<"repo", "policies">>)

DefDir == Dir(TRUE, <<"repo", "def">>)

OutDir == Dir(TRUE, <<"repo", "out">>)

OutPoliciesDir == Dir(TRUE, <<"repo", "out", "policies">>)

NoDirectory == [some |-> FALSE, v |-> Dir(FALSE, <<>>)]

InitConvert ==
    /\ \E file \in {<<>>, <<FilePath(Dir(FALSE, <<"policies">>), "a", ".pol")>>,
                    <<FilePath(Dir(FALSE, <<"policies">>), "a", ".pol"),
                      FilePath(Dir(FALSE, <<"def">>), "n", ".net"),
                      FilePath(Dir(FALSE, <<"policies">>), "a", ".yaml")>>},
          base_directory \in {Dir(FALSE, <<"policies">>), PoliciesDir},
          output_directory \in {NoDirectory, [some |-> TRUE, v |-> Dir(FALSE, <<"out">>)]},
          force \in BOOLEAN, dry_run \in BOOLEAN :
          arg = [file |-> file, base_directory |-> base_directory,
                 definitions_directory |-> Dir(FALSE, <<"def">>),
                 output_directory |-> output_directory,
                 force |-> force, dry_run |-> dry_run, reformat_yaml |-> FALSE]
    /\ \E more \in SUBSET {FilePath(PoliciesDir, "a", ".yaml"),
                           FilePath(Dir(TRUE, <<"repo", "policies", "sub">>), "b", ".inc"),
                           FilePath(OutDir, "a", ".yaml"),
                           FilePath(OutPoliciesDir, "a", ".yaml")},
          dirs \in SUBSET {OutDir, OutPoliciesDir} :
          LET files == {FilePath(PoliciesDir, "a", ".pol"), FilePath(DefDir, "n", ".net")}
                          \cup more
          IN before = [files |-> files,
                       dirs |-> UNION {Ancestors(file_parent(f)) : f \in files}
                                  \cup UNION {Ancestors(d) : d \in dirs}]
    /\ pc = [op |-> "plan"]
    /\ ret = <<>>
    /\ calls = {}
    /\ warnings = {}
    /\ raised = "none"
    /\ terms = <<>>
    /\ filters = <<>>
    /\ policy = "absent"
    /\ OPTIMIZE = TRUE
    /\ SHADE_CHECK = FALSE

\* pol2yaml up to the loop over the input files: the file plan, the check
\* for conflicts and the creation of the output directories
Pol2yamlPlan ==
    /\ pc.op = "plan"
    /\ LET directories == IF arg.file # <<>> THEN {CWD}
                          ELSE {arg.base_directory, arg.definitions_directory}
           file_targets ==
               IF arg.file # <<>> THEN get_file_plan(before, CWD, arg)
               ELSE Update(get_file_plan(before, arg.base_directory, arg),
                           get_file_plan(before, arg.definitions_directory, arg))
           targets(plan) == {f \in DOMAIN file_targets : file_targets[f] = plan}
           conflict == ~arg.force /\ ~arg.reformat_yaml /\ targets("OUTPUT_CONFLICT") # {}
       IN IF \E d \in directories : PlanFails(before, d, arg)
          THEN /\ raised' = "ValueError"
               /\ pc' = Idle
               /\ UNCHANGED <<ret, calls, warnings>>
          ELSE /\ ret' = file_targets
               /\ UNCHANGED raised
               /\ IF conflict /\ ~arg.dry_run
                  THEN /\ warnings' = warnings \cup {"COMMAND FAILED"}
                       /\ pc' = Idle
                       /\ UNCHANGED calls
                  ELSE /\ warnings' = IF conflict
                                      THEN warnings \cup {"Command would overwrite"}
                                      ELSE warnings
                       /\ calls' = IF ~arg.dry_run /\ arg.output_directory.some
                                   THEN {[op |-> "mkdir", path |-> file_parent(f)] :
                                            f \in targets("OUTPUT_MKDIR")}
                                   ELSE {}
                       /\ pc' = [op |-> "visit", todo |-> targets("INPUT")]
    /\ UNCHANGED <<arg, before, terms, filters, policy, OPTIMIZE, SHADE_CHECK>>

\* pol2yaml: one iteration of "for file in input_files"
Pol2yamlVisit ==
    /\ pc.op = "visit"
    /\ \E file \in pc.todo :
          LET output_target == get_output_target(arg.base_directory, file, arg)
              next == [pc EXCEPT !.todo = @ \ {file}]
          IN IF file.suffix \notin {".pol", ".inc"}
             THEN pc' = next /\ UNCHANGED <<calls, raised>>
             ELSE IF TargetFails(arg.base_directory, file, arg)
             THEN pc' = Idle /\ raised' = "ValueError" /\ UNCHANGED calls
             ELSE IF arg.dry_run
             THEN pc' = next /\ UNCHANGED <<calls, raised>>
             ELSE IF ~dir_exists(FsAfter(before, calls), file_parent(output_target))
             THEN pc' = Idle /\ raised' = "FileNotFoundError" /\ UNCHANGED calls
             ELSE /\ calls' = calls \cup {[op |-> "write", path |-> output_target]}
                  /\ pc' = next
                  /\ UNCHANGED raised
    /\ UNCHANGED <<arg, before, ret, warnings, terms, filters, policy, OPTIMIZE,
                   SHADE_CHECK>>

\* pol2yaml: after the loop, the report
Pol2yamlReport ==
    /\ pc.op = "visit"
    /\ pc.todo = {}
    /\ pc' = Idle
    /\ warnings' = warnings \cup {"files converted"}
    /\ UNCHANGED <<arg, before, ret, calls, raised, terms, filters, policy, OPTIMIZE,
                   SHADE_CHECK>>

NextConvert == Pol2yamlPlan \/ Pol2yamlVisit \/ Pol2yamlReport

SpecConvert == InitConvert /\ [][NextConvert]_vars

\* C24: in convert mode without --force, every file written is a planned
\* output that did not exist before the run, and when the plan holds a
\* conflict no directory is made and no file is written.
C24_NoOverwriteWithoutForce ==
    ~arg.force =>
        /\ \A o \in calls :
              o.op = "write" =>
                 /\ o.path \notin before.files
                 /\ o.path \in DOMAIN ret
                 /\ ret[o.path] \in {"OUTPUT", "OUTPUT_MKDIR"}
        /\ (\E f \in DOMAIN ret : ret[f] = "OUTPUT_CONFLICT") => calls = {}

(***************************************************************************)
(* SpecClassify: classify_yaml_content on YAML data.  The data (arg) is a  *)
(* mapping with its top-level keys in order, or something else.            *)
(***************************************************************************)
YamlMapping(keys) == [mapping |-> TRUE, keys |-> keys]

\* a list, a string or nothing at the top level
YamlOther == [mapping |-> FALSE, keys |-> <<>>]

\* Python: data.keys() == [...].  A dict keys view is never equal to a list.
DictKeysEqualList(keys, list) == FALSE

classify_yaml_content(data) ==
    IF ~data.mapping THEN PyNone
    ELSE IF DictKeysEqualList(data.keys, <<"filters">>) THEN "YAML_POL"
    ELSE IF DictKeysEqualList(data.keys, <<"terms">>) THEN "YAML_INC"
    ELSE IF "networks" \in Range(data.keys) \/ "services" \in Range(data.keys)
         THEN "YAML_DEF"
    ELSE PyNone

YamlKeys == {"filters", "terms", "networks", "services", "other"}

InitClassify ==
    /\ PolicyIdle
    /\ arg \in {YamlOther} \cup
               {YamlMapping(k) : k \in {q \in SeqsUpTo(YamlKeys, MaxKeys) :
                                           \A i, j \in 1..Len(q) : q[i] = q[j] => i = j}}
    /\ ret = <<>>

CallClassifyYamlContent ==
    /\ ret = <<>>
    /\ ret' = <<classify_yaml_content(arg)>>
    /\ UNCHANGED <<arg, policyVars>>

NextClassify == CallClassifyYamlContent

SpecClassify == InitClassify /\ [][NextClassify]_vars

\* C25: a mapping whose only key is 'filters' is YAML_POL, one whose only
\* key is 'terms' is YAML_INC, one with 'networks' or 'services' among its
\* keys is YAML_DEF, and data that is no mapping has no type.
C25_ClassifyYamlContent ==
    ret # <<>> =>
        /\ (arg.mapping /\ arg.keys = <<"filters">>) => ret[1] = "YAML_POL"
        /\ (arg.mapping /\ arg.keys = <<"terms">>) => ret[1] = "YAML_INC"
        /\ (arg.mapping /\ Range(arg.keys) \cap {"networks", "services"} # {}) =>
               ret[1] = "YAML_DEF"
        /\ ~arg.mapping => ret[1] = PyNone

(***************************************************************************)
(* SpecFlatten: AddObject, AddressCleanup, FlattenAll and containment      *)
(* checks on one Term object, terms[1], in any order.  arg lists the calls *)
(* made, before holds the term as it was before the latest call, ret tells *)
(* which flattened list shares its list object with the address list.      *)
(***************************************************************************)
FlattenObjects ==
    {ListOf(<<VarType("SADDRESS", "ANY")>>), ListOf(<<VarType("SADDREXCLUDE", "HOSTS")>>),
     ListOf(<<VarType("DADDRESS", "LOW")>>), ListOf(<<VarType("DADDREXCLUDE", "HOSTS")>>),
     ListOf(<<VarType("ADDRESS", "HIGH")>>), ListOf(<<VarType("ADDREXCLUDE", "HOSTS")>>)}

\* which of flattened_addr, flattened_saddr, flattened_daddr is the very
\* list object that address, source_address, destination_address names
NoAlias == [addr |-> FALSE, saddr |-> FALSE, daddr |-> FALSE]

InitFlatten ==
    /\ terms \in {<<TermAccept>>,
                  <<[TermAccept EXCEPT !.source_address = <<ANY4>>,
                                       !.destination_address = <<LOW4>>]>>}
    /\ before = terms
    /\ arg = <<>>
    /\ ret = NoAlias
    /\ filters = <<>>
    /\ pc = Idle
    /\ raised = "none"
    /\ warnings = {}
    /\ calls = <<>>
    /\ policy = "absent"
    /\ OPTIMIZE = TRUE
    /\ SHADE_CHECK = FALSE

\* a list with two names: what one name shows, the other shows
Aliased(t, alias) ==
    [t EXCEPT !.flattened_addr = IF alias.addr THEN Some(t.address) ELSE @,
              !.flattened_saddr = IF alias.saddr THEN Some(t.source_address) ELSE @,
              !.flattened_daddr = IF alias.daddr THEN Some(t.destination_address) ELSE @]

\* FlattenAll binds "self.flattened_x = self.x" without excludes, and
\* "self.x = self.flattened_x" for each list that has excludes
AliasAfterFlattenAll(t, alias) ==
    IF t.source_address_exclude = <<>> /\ t.destination_address_exclude = <<>>
       /\ t.address_exclude = <<>>
    THEN [addr |-> TRUE, saddr |-> TRUE, daddr |-> TRUE]
    ELSE [addr |-> alias.addr \/ t.address_exclude # <<>>,
          saddr |-> alias.saddr \/ t.source_address_exclude # <<>>,
          daddr |-> alias.daddr \/ t.destination_address_exclude # <<>>]

\* AddressCleanup binds each non-empty address list to a new list
AliasAfterAddressCleanup(t, alias) ==
    [addr |-> alias.addr /\ t.address = <<>>,
     saddr |-> alias.saddr /\ t.source_address = <<>>,
     daddr |-> alias.daddr /\ t.destination_address = <<>>]

\* one method call on the term: name is the method, t the term it leaves
FlattenCall(name, t, alias) ==
    /\ Len(arg) < MaxOps
    /\ terms' = <<Aliased(t, alias)>>
    /\ ret' = alias
    /\ before' = terms
    /\ arg' = Append(arg, name)
    /\ UNCHANGED <<filters, pc, raised, warnings, calls, policy, OPTIMIZE, SHADE_CHECK>>

\* term.AddObject(obj) with an address or an exclude line: extends a list
FlattenAddObject(obj) == FlattenCall("AddObject", AddObject(terms[1], obj).term, ret)

\* term.AddressCleanup(optimize)
FlattenAddressCleanup ==
    FlattenCall("AddressCleanup", AddressCleanup(terms[1], OPTIMIZE, FALSE),
                AliasAfterAddressCleanup(terms[1], ret))

\* term.FlattenAll()
FlattenFlattenAll ==
    FlattenCall("FlattenAll", FlattenAll(terms[1]), AliasAfterFlattenAll(terms[1], ret))

\* "term in term": __contains__ flattens a term that is not flattened yet
FlattenContains ==
    FlattenCall("__contains__", Flattened(terms[1]),
                IF terms[1].flattened THEN ret ELSE AliasAfterFlattenAll(terms[1], ret))

NextFlatten ==
    \/ \E obj \in FlattenObjects : FlattenAddObject(obj)
    \/ FlattenAddressCleanup
    \/ FlattenFlattenAll
    \/ FlattenContains

SpecFlatten == InitFlatten /\ [][NextFlatten]_vars

\* an address list with its exclude list subtracted
Subtracted(addresses, excludes) ==
    IF excludes = <<>> THEN addresses ELSE AddressListExclude(addresses, excludes)

\* the three flattened lists of t are those of the address lists of u
FlattenedFrom(t, u) ==
    /\ t.flattened_addr = Some(Subtracted(u.address, u.address_exclude))
    /\ t.flattened_saddr = Some(Subtracted(u.source_address, u.source_address_exclude))
    /\ t.flattened_daddr =
          Some(Subtracted(u.destination_address, u.destination_address_exclude))

\* C26: after FlattenAll each flattened list is the address list the term
\* had, minus its own exclude list, for every combination of empty and
\* non-empty exclude lists.
C26_FlattenAllSetsEveryList ==
    (arg # <<>> /\ Last(arg) = "FlattenAll") => FlattenedFrom(terms[1], before[1])

\* the flattened list is set and holds the networks of the address list
\* minus the exclude list
HoldsSubtracted(flat, addresses, excludes) ==
    flat.some /\ Range(flat.v) = Range(Subtracted(addresses, excludes))

\* C27: whenever term.flattened is true, the flattened lists hold the
\* term's current address lists minus its current exclude lists.
C27_FlattenedCacheCoherent ==
    LET t == terms[1]
    IN t.flattened =>
          /\ HoldsSubtracted(t.flattened_addr, t.address, t.address_exclude)
          /\ HoldsSubtracted(t.flattened_saddr, t.source_address, t.source_address_exclude)
          /\ HoldsSubtracted(t.flattened_daddr, t.destination_address,
                             t.destination_address_exclude)

(***************************************************************************)
(* SpecRange: the productions packet_length_spec, fragment_offset_spec and *)
(* hop_limit_spec as ParsePolicy runs them (_PRESERVE_ORIGINAL is False).  *)
(* arg is the sequence p[1..] of the values of the symbols of the right-   *)
(* hand side; ret holds the VarType the production returns.                *)
(***************************************************************************)
\* t_INTEGER: the value of an INTEGER token is its text
IntegerToken(n) == ToString(n)

\* Python: str(x) of a string is the string, str(None) is 'None'
Str(x) == IF x = PyNone THEN "None" ELSE x

\* the value of the symbol o: p_o assigns p[0] only when _PRESERVE_ORIGINAL
OptionalValue == PyNone

\* the right-hand side "KEYWORD o ':' o ':' lc o INTEGER lc o"
SingleForm(keyword, n) ==
    <<keyword, OptionalValue, ":", OptionalValue, ":", PyNone, OptionalValue,
      IntegerToken(n), PyNone, OptionalValue>>

\* the right-hand side "KEYWORD o ':' o ':' lc o INTEGER lc o '-' o INTEGER lc o"
RangeForm(keyword, n, m) ==
    SingleForm(keyword, n) \o <<"-", OptionalValue, IntegerToken(m), PyNone, OptionalValue>>

\* p_packet_length_spec: len(p) counts p[0] too
p_packet_length_spec(p) ==
    IF Len(p) + 1 = 11 THEN VarType("PACKET_LEN", Str(p[8]))
    ELSE VarType("PACKET_LEN", Str(p[8]) \o "-" \o Str(p[15]))

p_fragment_offset_spec(p) ==
    IF Len(p) + 1 = 11 THEN VarType("FRAGMENT_OFFSET", Str(p[8]))
    ELSE VarType("FRAGMENT_OFFSET", Str(p[8]) \o "-" \o Str(p[13]))

p_hop_limit_spec(p) ==
    IF Len(p) + 1 = 11 THEN VarType("HOP_LIMIT", Str(p[8]))
    ELSE VarType("HOP_LIMIT", Str(p[8]) \o "-" \o Str(p[13]))

RangeKeywords == {"packet-length", "fragment-offset", "hop-limit"}

InitRange ==
    /\ PolicyIdle
    /\ arg \in {SingleForm(k, n) : k \in RangeKeywords, n \in 0..MaxInteger}
                 \cup {RangeForm(k, n, m) : k \in RangeKeywords, n \in 0..MaxInteger,
                                            m \in 0..MaxInteger}
    /\ ret = <<>>

\* the parser reduces the right-hand side with the production of its keyword
ReduceRangeSpec ==
    /\ ret = <<>>
    /\ ret' = <<CASE arg[1] = "packet-length" -> p_packet_length_spec(arg)
                  [] arg[1] = "fragment-offset" -> p_fragment_offset_spec(arg)
                  [] arg[1] = "hop-limit" -> p_hop_limit_spec(arg)>>
    /\ UNCHANGED <<arg, policyVars>>

NextRange == ReduceRangeSpec

SpecRange == InitRange /\ [][NextRange]_vars

\* C28: for the range form the value of the VarType is the string 'N-M'
\* of the two integers, for the single form the string 'N', in all three
\* productions.
C28_RangePayload ==
    ret # <<>> =>
        \E n, m \in 0..MaxInteger :
            /\ arg[8] = IntegerToken(n)
            /\ IF Len(arg) = 10 THEN ret[1].value = ToString(n)
               ELSE /\ arg[13] = IntegerToken(m)
                    /\ ret[1].value = ToString(n) \o "-" \o ToString(m)

(***************************************************************************)
(* SpecBook: a Policy of up to MaxFilters filters over two Term objects,   *)
(* the filters added in either order under headers that do or do not call  *)
(* for an address book.  arg keeps the terms as the caller built them.     *)
(***************************************************************************)
\* a header whose target asks for object groups
CISCO_OBJECT_GROUP == <<Target("cisco", <<"object-group">>)>>

\* two adjacent hosts under different tokens
TermHosts ==
    [NewTerm EXCEPT !.action = <<"accept">>,
                    !.destination_address = <<HOST1, HOST0>>]

BookTerms == {TermWeb, TermNext, TermNoAction, TermHosts}

BookHeaders == {JUNIPER, SRX, CISCO_OBJECT_GROUP}

InitBook ==
    /\ terms \in [1..2 -> BookTerms]
    /\ arg = terms
    /\ ret = <<>>
    /\ filters = <<>>
    /\ pc = Idle
    /\ raised = "none"
    /\ warnings = {}
    /\ calls = [id \in 1..2 |-> NoCalls]
    /\ policy = "absent"
    /\ before = <<>>
    /\ OPTIMIZE \in BOOLEAN
    /\ SHADE_CHECK = FALSE

NextBook ==
    \/ \E header \in BookHeaders, list \in {<<1>>, <<2>>} : PolicyInit(header, list)
    \/ \E header \in BookHeaders, list \in {<<1>>, <<2>>} : AddFilter(header, list)
    \/ TranslatePortsStep
    \/ AddressCleanupStep
    \/ SanityCheckStep

SpecBook == InitBook /\ [][NextBook]_vars

\* what _TranslateTerms makes of the term t under the header of one filter
NormalizedUnder(t, header) ==
    [AddressCleanup(TranslateTermPorts(t, 1).term, OPTIMIZE,
                    NeedsAddressBook(<<[header |-> header, terms |-> <<>>]>>))
        EXCEPT !.translated = TRUE]

\* C29: once the filters of a policy are built, every term that is in one
\* filter only is what the port translation and the address cleanup make of
\* it under the header of that filter alone, whichever filters came before
\* and whatever their headers name.
C29_CleanupModeOfOwnHeader ==
    (pc = Idle /\ raised = "none" /\ policy = "built") =>
        \A i \in 1..Len(filters) :
            \A k \in 1..Len(filters[i].terms) :
                LET id == filters[i].terms[k]
                IN (/\ terms[id].translated
                    /\ \A j \in 1..Len(filters) :
                          j # i => id \notin Range(filters[j].terms))
                   => terms[id] = NormalizedUnder(arg[id], filters[i].header)

\* t has ports, and each of them is a resolved (low, high) range
PortsResolved(t) ==
    /\ HasPorts(t)
    /\ \A k \in 1..Len(PORT_FIELDS) :
          \A i \in 1..Len(t[PORT_FIELDS[k]]) : Len(t[PORT_FIELDS[k]][i]) = 2

\* C30: whenever no AddFilter call is under way, after calls that returned
\* and calls that raised, a term that was built with ports holds resolved
\* ranges in its port lists exactly if it is marked translated, and a term
\* that is not marked translated is the term the caller built, port names
\* and address lists included.
C30_NoHalfNormalizedTerm ==
    pc = Idle =>
        \A id \in DOMAIN terms :
            /\ HasPorts(arg[id]) => (PortsResolved(terms[id]) <=> terms[id].translated)
            /\ ~terms[id].translated => terms[id] = arg[id]

=============================================================================
